---- MODULE Spec2Model ----
(***************************************************************************)
(* Model of the scoring/classification engine of crypto-analysis           *)
(* (src/crypto_analyzer.py: CryptoTrendAnalyzer) and of the batch runners  *)
(* (CryptoTrendAnalyzer.analyze_batch, src/main.py CryptoAnalysisPipeline).*)
(* Further sections model the chat context store (src/bot/                 *)
(* context_manager.py) and the retrying AI call (src/analyzer.py).         *)
(*                                                                         *)
(* Conventions                                                             *)
(*  - A Python float is an exact rational <<n, d>> with d > 0; rounding of  *)
(*    IEEE doubles is outside the model.  NaN is <<0, 0>>: it arises only  *)
(*    from a rolling window longer than the series, never from the inputs. *)
(*  - Optional[T] is a tuple: None is <<>>, a present value v is <<v>>.    *)
(*  - Reason and warning tags are ASCII names of the source's strings; the *)
(*    source string is given next to each tag.                             *)
(***************************************************************************)
EXTENDS Integers, Sequences, FiniteSets, TLC

VARIABLES
    pc,                      \* position of the modelled call
    result,                  \* the CryptoAnalysisResult being built / returned
    raw_signal,              \* local `signal` of _generate_signal before the downgrade
    args,                    \* arguments of a classifier call
    ret,                     \* value returned by the modelled call
    BIAS_THRESHOLD_CAUTION,  \* instance attribute set in __init__
    feed,                    \* what the data fetchers return for the identifier
    identifiers,             \* analyze_batch / run: the submitted list, one feed per symbol
    cursor,                  \* analyze_batch: index of the next identifier of the for loop
    results,                 \* the local list `results` of analyze_batch / run
    processed,               \* indices handed to analyze / process_single_crypto, in call order
    run_cfg,                 \* run: max_workers, dry_run, send_notification, single_crypto_notify
    futures,                 \* run: state and return value of each submitted future
    collected,               \* run: indices already yielded by as_completed
    notified,                \* run: pushes and saved reports, in order
    analyzer,                \* the pipeline's one GeminiAnalyzer: current model, fallback flag
    sessions,                \* ContextManager.sessions: the UserSessions in dict insertion order
    max_sessions,            \* ContextManager.max_sessions
    _latest_global_report,   \* ContextManager._latest_global_report
    now,                     \* the reading datetime.now() gives
    added,                   \* history: per key, the messages added since creation or clearing
    created,                 \* history: the key whose session the last operation created
    api_call                 \* _call_api_with_retry: the locals and flags of the running call

vars ==
    <<pc, result, raw_signal, args, ret, BIAS_THRESHOLD_CAUTION, feed,
      identifiers, cursor, results, processed,
      run_cfg, futures, collected, notified, analyzer,
      sessions, max_sessions, _latest_global_report, now, added, created, api_call>>

bot_vars == <<sessions, max_sessions, _latest_global_report, now, added, created>>

batch_vars == <<identifiers, cursor, results, processed>>

run_vars == <<run_cfg, futures, collected, notified, analyzer>>

-----------------------------------------------------------------------------
(* Optional values *)

None == <<>>

Some(v) == <<v>>

IsNone(o) == o = <<>>

Val(o) == o[1]

-----------------------------------------------------------------------------
(* Exact rationals standing for Python floats *)

Rat(n) == <<n, 1>>

RLt(a, b) == a[1] * b[2] < b[1] * a[2]

RGt(a, b) == RLt(b, a)

RGe(a, b) == ~RLt(a, b)

REq(a, b) == a[1] * b[2] = b[1] * a[2]

RNeg(a) == <<0 - a[1], a[2]>>

Abs(n) == IF n < 0 THEN 0 - n ELSE n

RECURSIVE GCD(_, _)
GCD(a, b) == IF b = 0 THEN a ELSE GCD(b, a % b)

\* the same number in lowest terms, so that products stay small
RNorm(a) ==
    LET g == GCD(Abs(a[1]), Abs(a[2]))
    IN  IF g = 0 THEN a ELSE <<a[1] \div g, a[2] \div g>>

RSub(a, b) == RNorm(<<a[1] * b[2] - b[1] * a[2], a[2] * b[2]>>)

\* a / b for b # 0, keeping the denominator positive
RDiv(a, b) ==
    IF b[1] > 0 THEN RNorm(<<a[1] * b[2], a[2] * b[1]>>)
    ELSE RNorm(<<0 - a[1] * b[2], 0 - a[2] * b[1]>>)

RTimes(a, k) == RNorm(<<a[1] * k, a[2]>>)

\* every ordering comparison with NaN is false
NaN == <<0, 0>>

\* Python truthiness of an Optional[float]: not None and not 0.0 (NaN is truthy)
Truthy(o) == ~IsNone(o) /\ (Val(o)[1] # 0 \/ Val(o)[2] = 0)

-----------------------------------------------------------------------------
(* Enumerations: TrendStatus, BiasLevel, SignalType *)

TrendStatus ==
    {"BULLISH_ALIGNED", "BEARISH_ALIGNED", "SHORT_BULLISH", "SHORT_BEARISH",
     "CONSOLIDATING", "INSUFFICIENT_DATA"}

BiasLevel == {"OVERSOLD", "LOW_RISK", "NORMAL", "CAUTION", "HIGH_RISK"}

SignalType == {"STRONG_BUY", "BUY", "HOLD", "SELL", "STRONG_SELL", "WAIT"}

-----------------------------------------------------------------------------
(* Dataclass defaults *)

TechnicalIndicators ==
    [ma7 |-> None, ma25 |-> None, ma99 |-> None,
     bias_7 |-> None, bias_25 |-> None,
     trend_status |-> "INSUFFICIENT_DATA", bias_level |-> "NORMAL",
     volume_change_24h |-> None,
     support_level |-> None, resistance_level |-> None]

OnchainIndicators ==
    [holder_change_24h |-> None, liquidity_usd |-> Rat(0),
     buys_24h |-> 0, sells_24h |-> 0, buy_sell_ratio |-> Rat(1)]

CryptoAnalysisResult(source, price_change_24h) ==
    [source |-> source, price_change_24h |-> price_change_24h,
     technical |-> TechnicalIndicators, onchain |-> OnchainIndicators,
     signal |-> "WAIT", signal_strength |-> 0, signal_reasons |-> <<>>,
     risk_warnings |-> <<>>]

-----------------------------------------------------------------------------
(* _generate_signal: score modifiers, each a step on [score, reasons] *)

\* the modifier applied without reasons.append
TaggedSilent(s, delta, tag) == [score |-> s.score + delta, reasons |-> s.reasons]

Tagged(s, delta, tag) ==
    [score |-> s.score + delta, reasons |-> Append(s.reasons, tag)]

Untagged(s, delta) == [score |-> s.score + delta, reasons |-> s.reasons]

\* tags: 多头排列, 空头排列, 短期看多, 短期看空
TrendScore(s, trend_status) ==
    IF trend_status = "BULLISH_ALIGNED" THEN Tagged(s, 20, "bullish_aligned")
    ELSE IF trend_status = "BEARISH_ALIGNED" THEN Tagged(s, -20, "bearish_aligned")
    ELSE IF trend_status = "SHORT_BULLISH" THEN Tagged(s, 10, "short_bullish")
    ELSE IF trend_status = "SHORT_BEARISH" THEN Tagged(s, -10, "short_bearish")
    ELSE s

\* tags: 超卖区, 低风险区, 乖离率偏高, 严禁追高
BiasScore(s, bias_level) ==
    IF bias_level = "OVERSOLD" THEN Tagged(s, 15, "oversold")
    ELSE IF bias_level = "LOW_RISK" THEN Tagged(s, 10, "low_risk")
    ELSE IF bias_level = "CAUTION" THEN Tagged(s, -10, "bias_high")
    ELSE IF bias_level = "HIGH_RISK" THEN Tagged(s, -20, "no_chasing")
    ELSE s

\* the tiers read with >= and <= in place of > and <
MomentumScoreInclusive(s, price_change_24h) ==
    IF RGe(price_change_24h, Rat(20)) THEN Tagged(s, -10, "surge_24h")
    ELSE IF RGe(price_change_24h, Rat(10)) THEN Untagged(s, -5)
    ELSE IF ~RGt(price_change_24h, Rat(-20)) THEN Tagged(s, 5, "deep_pullback")
    ELSE IF ~RGt(price_change_24h, Rat(-10)) THEN Untagged(s, 3)
    ELSE s

\* tags: 24h涨幅过大, 大幅回调; the two middle tiers add no tag
MomentumScore(s, price_change_24h) ==
    IF RGt(price_change_24h, Rat(20)) THEN Tagged(s, -10, "surge_24h")
    ELSE IF RGt(price_change_24h, Rat(10)) THEN Untagged(s, -5)
    ELSE IF RLt(price_change_24h, Rat(-20)) THEN Tagged(s, 5, "deep_pullback")
    ELSE IF RLt(price_change_24h, Rat(-10)) THEN Untagged(s, 3)
    ELSE s

\* tags: 放量, 缩量
VolumeScore(s, volume_change_24h) ==
    IF Truthy(volume_change_24h)
    THEN IF RGt(Val(volume_change_24h), Rat(100)) THEN Tagged(s, 5, "volume_up")
         ELSE IF RLt(Val(volume_change_24h), Rat(-50)) THEN Tagged(s, -5, "volume_down")
         ELSE s
    ELSE s

\* tags: 买盘强势, 卖盘强势
BuySellScore(s, buy_sell_ratio) ==
    IF RGt(buy_sell_ratio, <<3, 2>>) THEN Tagged(s, 10, "buy_pressure")
    ELSE IF RLt(buy_sell_ratio, <<1, 2>>) THEN Tagged(s, -10, "sell_pressure")
    ELSE s

\* tags: 持有人增加, 持有人减少; holder_change_24h is Optional[int]
HolderScore(s, holder_change_24h) ==
    IF ~IsNone(holder_change_24h) /\ Val(holder_change_24h) # 0
    THEN IF Val(holder_change_24h) > 100 THEN Tagged(s, 5, "holders_up")
         ELSE IF Val(holder_change_24h) < -100 THEN Tagged(s, -5, "holders_down")
         ELSE s
    ELSE s

\* the penalty read as score += len(result.risk_warnings) * 5
RiskPenaltyCredited(s, risk_warnings) == Untagged(s, Len(risk_warnings) * 5)

\* score -= len(result.risk_warnings) * 5
RiskPenalty(s, risk_warnings) == Untagged(s, 0 - Len(risk_warnings) * 5)

Max2(a, b) == IF a >= b THEN a ELSE b

Min2(a, b) == IF a <= b THEN a ELSE b

\* score = max(0, min(100, score))
ClampNoCeiling(score) == Max2(0, score)

Clamp(score) == Max2(0, Min2(100, score))

ScoreToSignalStrict(score) ==
    IF score > 80 THEN "STRONG_BUY"
    ELSE IF score > 65 THEN "BUY"
    ELSE IF score > 45 THEN "HOLD"
    ELSE IF score > 30 THEN "SELL"
    ELSE "STRONG_SELL"

ScoreToSignal(score) ==
    IF score >= 80 THEN "STRONG_BUY"
    ELSE IF score >= 65 THEN "BUY"
    ELSE IF score >= 45 THEN "HOLD"
    ELSE IF score >= 30 THEN "SELL"
    ELSE "STRONG_SELL"

\* the downgrade cascade applied twice to a STRONG_BUY
DowngradeTwice(signal, risk_warnings) ==
    IF Len(risk_warnings) >= 3
    THEN IF signal \in {"STRONG_BUY", "BUY"} THEN "HOLD" ELSE signal
    ELSE signal

Downgrade(signal, risk_warnings) ==
    IF Len(risk_warnings) >= 3
    THEN IF signal = "STRONG_BUY" THEN "BUY"
         ELSE IF signal = "BUY" THEN "HOLD"
         ELSE signal
    ELSE signal

\* the test read as len(result.risk_warnings) > 3
DowngradeReasonsStrict(reasons, risk_warnings) ==
    IF Len(risk_warnings) > 3 THEN Append(reasons, "multiple_risks") ELSE reasons

\* tag: 多重风险, appended whenever there are 3 or more warnings
DowngradeReasons(reasons, risk_warnings) ==
    IF Len(risk_warnings) >= 3 THEN Append(reasons, "multiple_risks") ELSE reasons

\* score and reasons before the clamp
Scored(r) ==
    LET s0 == [score |-> 50, reasons |-> <<>>]
        s1 == TrendScore(s0, r.technical.trend_status)
        s2 == BiasScore(s1, r.technical.bias_level)
        s3 == MomentumScore(s2, r.price_change_24h)
        s4 == VolumeScore(s3, r.technical.volume_change_24h)
        s5 == BuySellScore(s4, r.onchain.buy_sell_ratio)
        s6 == HolderScore(s5, r.onchain.holder_change_24h)
    IN  RiskPenalty(s6, r.risk_warnings)

\* the local `signal` after the threshold mapping
_generate_signal_raw(r) == ScoreToSignal(Clamp(Scored(r).score))

\* the score and the reasons are stored, the signal is not
_generate_signal_unassigned(r) ==
    LET s == Scored(r)
    IN  [r EXCEPT !.signal_strength = Clamp(s.score),
                  !.signal_reasons = DowngradeReasons(s.reasons, r.risk_warnings)]

_generate_signal(r) ==
    LET s == Scored(r)
        score == Clamp(s.score)
    IN  [r EXCEPT !.signal = Downgrade(ScoreToSignal(score), r.risk_warnings),
                  !.signal_strength = score,
                  !.signal_reasons = DowngradeReasons(s.reasons, r.risk_warnings)]

-----------------------------------------------------------------------------
(* _determine_trend *)

\* the aligned orderings read with >= and <=
_determine_trend_nonstrict(ma7, ma25, ma99) ==
    IF IsNone(ma7) THEN "INSUFFICIENT_DATA"
    ELSE IF ~IsNone(ma25) /\ ~IsNone(ma99)
    THEN IF RGe(Val(ma7), Val(ma25)) /\ RGe(Val(ma25), Val(ma99))
         THEN "BULLISH_ALIGNED"
         ELSE IF RGe(Val(ma25), Val(ma7)) /\ RGe(Val(ma99), Val(ma25))
         THEN "BEARISH_ALIGNED"
         ELSE "CONSOLIDATING"
    ELSE IF ~IsNone(ma25)
    THEN IF RGe(Val(ma7), Val(ma25)) THEN "SHORT_BULLISH" ELSE "SHORT_BEARISH"
    ELSE "INSUFFICIENT_DATA"

_determine_trend(ma7, ma25, ma99) ==
    IF IsNone(ma7) THEN "INSUFFICIENT_DATA"
    ELSE IF ~IsNone(ma25) /\ ~IsNone(ma99)
    THEN IF RGt(Val(ma7), Val(ma25)) /\ RGt(Val(ma25), Val(ma99))
         THEN "BULLISH_ALIGNED"
         ELSE IF RLt(Val(ma7), Val(ma25)) /\ RLt(Val(ma25), Val(ma99))
         THEN "BEARISH_ALIGNED"
         ELSE "CONSOLIDATING"
    ELSE IF ~IsNone(ma25)
    THEN IF RGt(Val(ma7), Val(ma25)) THEN "SHORT_BULLISH" ELSE "SHORT_BEARISH"
    ELSE "INSUFFICIENT_DATA"

-----------------------------------------------------------------------------
(* _determine_bias_level; caution is self.BIAS_THRESHOLD_CAUTION *)

BIAS_THRESHOLD_LOW == Rat(5)

\* the class attribute before __init__ overrides it
DEFAULT_BIAS_THRESHOLD_CAUTION == Rat(10)

\* the upper boundaries read with <=
_determine_bias_level_inclusive(bias, caution) ==
    IF IsNone(bias) THEN "NORMAL"
    ELSE IF RLt(Val(bias), RNeg(caution)) THEN "OVERSOLD"
    ELSE IF RLt(Val(bias), Rat(0)) THEN "LOW_RISK"
    ELSE IF ~RGt(Val(bias), BIAS_THRESHOLD_LOW) THEN "NORMAL"
    ELSE IF ~RGt(Val(bias), caution) THEN "CAUTION"
    ELSE "HIGH_RISK"

_determine_bias_level(bias, caution) ==
    IF IsNone(bias) THEN "NORMAL"
    ELSE IF RLt(Val(bias), RNeg(caution)) THEN "OVERSOLD"
    ELSE IF RLt(Val(bias), Rat(0)) THEN "LOW_RISK"
    ELSE IF RLt(Val(bias), BIAS_THRESHOLD_LOW) THEN "NORMAL"
    ELSE IF RLt(Val(bias), caution) THEN "CAUTION"
    ELSE "HIGH_RISK"

-----------------------------------------------------------------------------
(* _calculate_technical_indicators: df is a sequence of candles            *)
(* [close, volume, low, high] in chronological order, values integers      *)

RECURSIVE SumClose(_, _, _)
SumClose(df, lo, hi) ==
    IF lo > hi THEN 0 ELSE df[hi].close + SumClose(df, lo, hi - 1)

\* df['close'].rolling(window).mean(): NaN until the window is full
RollingMean(df, window) ==
    [i \in 1..Len(df) |->
        IF i < window THEN NaN ELSE <<SumClose(df, i - window + 1, i), window>>]

\* series.iloc[-1]
ILocLast(series) == series[Len(series)]

\* the minimum taken over df['close']
RECURSIVE MinLowOfClose(_, _, _)
MinLowOfClose(df, lo, hi) ==
    IF lo = hi THEN df[hi].close
    ELSE Min2(df[hi].close, MinLowOfClose(df, lo, hi - 1))

RECURSIVE MinLow(_, _, _)
MinLow(df, lo, hi) ==
    IF lo = hi THEN df[hi].low ELSE Min2(df[hi].low, MinLow(df, lo, hi - 1))

RECURSIVE MaxHigh(_, _, _)
MaxHigh(df, lo, hi) ==
    IF lo = hi THEN df[hi].high ELSE Max2(df[hi].high, MaxHigh(df, lo, hi - 1))

\* the guard read as ma != 0
BiasOfNonZero(current_price, ma) ==
    IF Truthy(ma) /\ Val(ma)[1] # 0 /\ Val(ma)[2] # 0
    THEN Some(RTimes(RDiv(RSub(Rat(current_price), Val(ma)), Val(ma)), 100))
    ELSE None

\* if ma and ma > 0: ((current_price - ma) / ma) * 100
BiasOf(current_price, ma) ==
    IF Truthy(ma) /\ RGt(Val(ma), Rat(0))
    THEN Some(RTimes(RDiv(RSub(Rat(current_price), Val(ma)), Val(ma)), 100))
    ELSE None

\* if vol_yesterday > 0: ((vol_today - vol_yesterday) / vol_yesterday) * 100
VolumeChangeOf(df) ==
    IF Len(df) >= 2
    THEN LET vol_today == df[Len(df)].volume
             vol_yesterday == df[Len(df) - 1].volume
         IN  IF vol_yesterday > 0
             THEN Some(<<(vol_today - vol_yesterday) * 100, vol_yesterday>>)
             ELSE None
    ELSE None

\* the guard read as len(df) >= window - 1
HasWindowOffByOne(df, window) == Len(df) >= window - 1

\* if len(df) >= 25, if len(df) >= 99
HasWindow(df, window) == Len(df) >= window

\* the early return read as len(df) < 6
TooShortOffByOne(df) == Len(df) < 6

\* if len(df) < 7: return
TooShort(df) == Len(df) < 7

_calculate_technical_indicators(r, df, caution) ==
    IF TooShort(df) THEN r
    ELSE
    LET n == Len(df)
        current_price == df[n].close
        ma7 == Some(ILocLast(RollingMean(df, 7)))
        ma25 == IF HasWindow(df, 25) THEN Some(ILocLast(RollingMean(df, 25)))
                ELSE None
        ma99 == IF HasWindow(df, 99) THEN Some(ILocLast(RollingMean(df, 99)))
                ELSE None
        bias_7 == BiasOf(current_price, ma7)
        bias_25 == BiasOf(current_price, ma25)
    IN  [r EXCEPT
            !.technical.ma7 = ma7,
            !.technical.ma25 = ma25,
            !.technical.ma99 = ma99,
            !.technical.bias_7 = bias_7,
            !.technical.bias_25 = bias_25,
            !.technical.trend_status = _determine_trend(ma7, ma25, ma99),
            !.technical.bias_level = _determine_bias_level(bias_7, caution),
            !.technical.volume_change_24h = VolumeChangeOf(df),
            !.technical.support_level =
                IF n >= 20 THEN Some(Rat(MinLow(df, n - 19, n))) ELSE None,
            !.technical.resistance_level =
                IF n >= 20 THEN Some(Rat(MaxHigh(df, n - 19, n))) ELSE None]

-----------------------------------------------------------------------------
(* _check_onchain_risks: token is a TokenInfo; pool_created_at is held as  *)
(* the age in hours that datetime.now() - pool_created_at gives.  Tags:    *)
(* 流动性极低, 流动性较低, FDV/市值比过高, 卖盘压力大, 新币风险, 新币     *)
(* (the formatted ratios carried by the strings are left out)              *)

\* TokenInfo(**kw): a keyword that is not supplied (None here) takes the
\* dataclass default
TokenInfo(kw) ==
    [price_change_24h |-> kw.price_change_24h,
     liquidity_usd |->
         IF IsNone(kw.liquidity_usd) THEN Rat(0) ELSE Val(kw.liquidity_usd),
     fdv |-> kw.fdv,
     market_cap |-> kw.market_cap,
     buys_24h |-> IF IsNone(kw.buys_24h) THEN 0 ELSE Val(kw.buys_24h),
     sells_24h |-> IF IsNone(kw.sells_24h) THEN 0 ELSE Val(kw.sells_24h),
     pool_created_at |-> kw.pool_created_at]

\* the second liquidity test read as `if` in place of `elif`
LiquidityWarningBoth(token) ==
    (IF RLt(token.liquidity_usd, Rat(10000)) THEN <<"liquidity_very_low">>
     ELSE <<>>)
    \o (IF RLt(token.liquidity_usd, Rat(50000)) THEN <<"liquidity_low">>
        ELSE <<>>)

LiquidityWarning(token) ==
    IF RLt(token.liquidity_usd, Rat(10000)) THEN <<"liquidity_very_low">>
    ELSE IF RLt(token.liquidity_usd, Rat(50000)) THEN <<"liquidity_low">>
    ELSE <<>>

FdvWarning(token) ==
    IF Truthy(token.fdv) /\ Truthy(token.market_cap)
    THEN LET fdv_ratio ==
                 IF RGt(Val(token.market_cap), Rat(0))
                 THEN RDiv(Val(token.fdv), Val(token.market_cap))
                 ELSE Rat(0)
         IN  IF RGt(fdv_ratio, Rat(10)) THEN <<"fdv_ratio_high">> ELSE <<>>
    ELSE <<>>

SellPressureWarning(token) ==
    IF token.sells_24h > 0
    THEN IF RLt(<<token.buys_24h, token.sells_24h>>, <<1, 2>>)
         THEN <<"sell_pressure">> ELSE <<>>
    ELSE <<>>

PoolAgeWarning(token) ==
    IF ~IsNone(token.pool_created_at)
    THEN IF RLt(Val(token.pool_created_at), Rat(24)) THEN <<"new_pool_24h">>
         ELSE IF RLt(Val(token.pool_created_at), Rat(72)) THEN <<"new_pool_3d">>
         ELSE <<>>
    ELSE <<>>

_check_onchain_risks(r, token) ==
    [r EXCEPT !.risk_warnings =
        LiquidityWarning(token) \o FdvWarning(token)
            \o SellPressureWarning(token) \o PoolAgeWarning(token)]

-----------------------------------------------------------------------------
(* analyze: the two paths.  f is what the fetchers give for the identifier: *)
(*   f.error       a collaborator call raises inside the handler's try     *)
(*   f.quote       get_realtime_quote: None or [change_24h]                *)
(*   f.kline       get_kline: None or the candles of kline.data            *)
(*   f.token       get_token_with_pools()['token']: None or a TokenInfo    *)
(*   f.main_pool   whether get_token_with_pools() has a main_pool          *)
(*   f.df          get_pool_ohlcv: None or the candles                     *)

\* the caller's guard read as len(df) >= 7
OnchainHasCandlesInclusive(df) == ~IsNone(df) /\ Len(Val(df)) >= 7

\* if df is not None and len(df) > 7
OnchainHasCandles(df) == ~IsNone(df) /\ Len(Val(df)) > 7

\* if kline and kline.data is not None and len(kline.data) > 0
ExchangeHasCandles(kline) == ~IsNone(kline) /\ Len(Val(kline)) > 0

\* the ratio computed as buys / max(sells, 1)
BuySellRatioOfFloor(token) ==
    IF token.sells_24h > 0 THEN <<token.buys_24h, token.sells_24h>>
    ELSE Rat(token.buys_24h)

\* if token.sells_24h > 0: buy_sell_ratio = buys / sells; else the default 1.0
BuySellRatioOf(token) ==
    IF token.sells_24h > 0 THEN <<token.buys_24h, token.sells_24h>>
    ELSE OnchainIndicators.buy_sell_ratio

_analyze_exchange_token(f, caution) ==
    IF f.error THEN None
    ELSE IF IsNone(f.quote) THEN None
    ELSE
    LET r0 == CryptoAnalysisResult("exchange", Val(f.quote).change_24h)
        r1 == IF ExchangeHasCandles(f.kline)
              THEN _calculate_technical_indicators(r0, Val(f.kline), caution)
              ELSE r0
    IN  Some(_generate_signal(r1))

_analyze_onchain_token(f, caution) ==
    IF f.error THEN None
    ELSE IF IsNone(f.token) THEN None
    ELSE
    LET token == Val(f.token)
        r0 == [CryptoAnalysisResult("onchain", token.price_change_24h) EXCEPT
                  !.onchain.liquidity_usd = token.liquidity_usd,
                  !.onchain.buys_24h = token.buys_24h,
                  !.onchain.sells_24h = token.sells_24h,
                  !.onchain.buy_sell_ratio = BuySellRatioOf(token)]
        r1 == IF f.main_pool /\ OnchainHasCandles(f.df)
              THEN _calculate_technical_indicators(r0, Val(f.df), caution)
              ELSE r0
        r2 == _check_onchain_risks(r1, token)
    IN  Some(_generate_signal(r2))

\* analyze(identifier): dispatch on the parsed identifier type
analyze(f, caution) ==
    IF f.type = "exchange" THEN _analyze_exchange_token(f, caution)
    ELSE _analyze_onchain_token(f, caution)

-----------------------------------------------------------------------------
(* analyze_batch: the body of the for loop and the final sort *)

\* the result is appended whether or not analyze returned one
BatchCollectAlways(acc, r) ==
    Append(acc, IF IsNone(r) THEN CryptoAnalysisResult("none", Rat(0)) ELSE Val(r))

\* if result: results.append(result)
BatchCollect(acc, r) == IF IsNone(r) THEN acc ELSE Append(acc, Val(r))

\* r placed before the entries of its own strength
RECURSIVE InsertByStrengthBeforeTies(_, _)
InsertByStrengthBeforeTies(sorted, r) ==
    IF sorted = <<>> THEN <<r>>
    ELSE IF Head(sorted).signal_strength > r.signal_strength
    THEN <<Head(sorted)>> \o InsertByStrengthBeforeTies(Tail(sorted), r)
    ELSE <<r>> \o sorted

\* position of r in a list already sorted by signal_strength, highest first:
\* after every entry whose strength is not lower (the sort is stable)
RECURSIVE InsertByStrength(_, _)
InsertByStrength(sorted, r) ==
    IF sorted = <<>> THEN <<r>>
    ELSE IF Head(sorted).signal_strength >= r.signal_strength
    THEN <<Head(sorted)>> \o InsertByStrength(Tail(sorted), r)
    ELSE <<r>> \o sorted

\* results.sort(key=lambda x: x.signal_strength, reverse=True)
RECURSIVE SortByStrength(_)
SortByStrength(list) ==
    IF list = <<>> THEN <<>>
    ELSE InsertByStrength(SortByStrength(SubSeq(list, 1, Len(list) - 1)),
                          list[Len(list)])

-----------------------------------------------------------------------------
(* CryptoAnalysisPipeline (src/main.py): one unit of work of run() *)

\* positional arguments get_realtime_quote takes besides self
get_realtime_quote_params == 1

\* positional arguments fetch_crypto_data passes to it: (symbol, exchange)
get_realtime_quote_args == 2

\* the fetch with the fetcher called as its signature asks
fetch_crypto_data_one_argument(f) ==
    IF IsNone(f.quote) THEN [success |-> FALSE, data |-> None]
    ELSE IF IsNone(f.kline) THEN [success |-> FALSE, data |-> None]
    ELSE [success |-> TRUE, data |-> Some(f)]

\* fetch_crypto_data: the call of get_realtime_quote raises TypeError when the
\* argument counts differ; the except clause turns it into (False, msg, None)
fetch_crypto_data(f) ==
    IF get_realtime_quote_args # get_realtime_quote_params
    THEN [success |-> FALSE, data |-> None]
    ELSE IF IsNone(f.quote) THEN [success |-> FALSE, data |-> None]
    ELSE IF IsNone(f.kline) THEN [success |-> FALSE, data |-> None]
    ELSE [success |-> TRUE, data |-> Some(f)]

\* GeminiAnalyzer.__init__ and _init_model: the primary model, no fallback
GeminiAnalyzer ==
    [model |-> TRUE, current_model_name |-> "primary", using_fallback |-> FALSE,
     use_openai |-> FALSE, openai_client |-> FALSE]

\* _switch_to_fallback_model: writes the analyzer's model and fallback flag
_switch_to_fallback_model(a) ==
    [a EXCEPT !.current_model_name = "fallback", !.using_fallback = TRUE]

\* _call_api_with_retry: the model that answers and the analyzer afterwards.
\* rate_limited: the current model answers 429 to every attempt; after half
\* the retries the analyzer switches to the fallback model unless it is
\* already on it, in which case every retry fails ("none" answers)
_call_api_with_retry(a, rate_limited) ==
    IF ~rate_limited THEN [model |-> a.current_model_name, analyzer |-> a]
    ELSE IF ~a.using_fallback
    THEN [model |-> "fallback", analyzer |-> _switch_to_fallback_model(a)]
    ELSE [model |-> "none", analyzer |-> a]

\* analyze_crypto: the AI analysis of the fetched data, None when it raises;
\* the AnalysisResult is identified by the close of its latest candle and
\* the model that produced it
analyze_crypto(data, a, rate_limited) ==
    IF data.error THEN [value |-> None, analyzer |-> a]
    ELSE LET call == _call_api_with_retry(a, rate_limited)
         IN  [value |-> Some([code |-> data.type,
                              price |-> Val(data.kline)[Len(Val(data.kline))].close,
                              model |-> call.model]),
              analyzer |-> call.analyzer]

\* process_single_crypto: the returned value, whether the unit pushed it,
\* and the shared analyzer as the unit leaves it
process_single_crypto(f, skip_analysis, single_crypto_notify, a, rate_limited) ==
    LET fetched == fetch_crypto_data(f)
    IN  IF ~fetched.success
        THEN [value |-> None, pushed |-> FALSE, analyzer |-> a]
        ELSE IF skip_analysis
        THEN [value |-> None, pushed |-> FALSE, analyzer |-> a]
        ELSE LET r == analyze_crypto(Val(fetched.data), a, rate_limited)
             IN  [value |-> r.value,
                  pushed |-> ~IsNone(r.value) /\ single_crypto_notify,
                  analyzer |-> r.analyzer]

\* the guard read as `if send_notification`
ShouldNotifyUnguarded(rs, cfg) == cfg.send_notification

\* if results and send_notification and not dry_run
ShouldNotify(rs, cfg) == rs # <<>> /\ cfg.send_notification /\ ~cfg.dry_run

\* the pool starts a thread while the number of threads is <= max_workers
HasIdleWorkerOffByOne(fs, max_workers) ==
    Cardinality({i \in 1..Len(fs) : fs[i].state = "running"}) <= max_workers

\* ThreadPoolExecutor(max_workers): at most max_workers threads take work
HasIdleWorker(fs, max_workers) ==
    Cardinality({i \in 1..Len(fs) : fs[i].state = "running"}) < max_workers

\* number of futures a worker thread is executing
Running(fs) == Cardinality({i \in 1..Len(fs) : fs[i].state = "running"})

\* the work queue of the executor is first in, first out
NextQueued(fs, i) ==
    /\ fs[i].state = "queued"
    /\ \A j \in 1..(i - 1) : fs[j].state # "queued"

-----------------------------------------------------------------------------
(* Idle values of the variables a specification does not use *)

IdleResult == CryptoAnalysisResult("none", Rat(0))

IdleSignal == result = IdleResult /\ raw_signal = "WAIT"

IdleFeed ==
    feed = [type |-> "none", error |-> FALSE, quote |-> None, kline |-> None,
            token |-> None, main_pool |-> FALSE, df |-> None]

IdleBatch ==
    identifiers = <<>> /\ cursor = 0 /\ results = <<>> /\ processed = <<>>

IdleRun ==
    /\ run_cfg = [max_workers |-> 1, dry_run |-> FALSE,
                  send_notification |-> FALSE, single_crypto_notify |-> FALSE]
    /\ futures = <<>>
    /\ collected = <<>>
    /\ notified = <<>>
    /\ analyzer = GeminiAnalyzer

IdleBot ==
    /\ sessions = <<>>
    /\ max_sessions = 1
    /\ _latest_global_report = None
    /\ now = 0
    /\ added = [k \in {} |-> <<>>]
    /\ created = None

IdleCall == api_call = [phase |-> "idle"]

IdleClassifier ==
    args = None /\ ret = None /\ BIAS_THRESHOLD_CAUTION = DEFAULT_BIAS_THRESHOLD_CAUTION

-----------------------------------------------------------------------------
(* Specification SpecSignal: _generate_signal applied to any result *)

MaxWarnings == 4

PriceChanges == {Rat(n) : n \in {-25, -20, -15, -10, 3, 10, 15, 20, 25}}

VolumeChanges == {None} \cup {Some(Rat(n)) : n \in {-60, -50, 0, 100, 150}}

BuySellRatios == {<<3, 10>>, <<1, 2>>, <<1, 1>>, <<3, 2>>, <<9, 5>>}

HolderChanges == {None} \cup {Some(n) : n \in {-150, -100, 0, 100, 150}}

Warnings(n) == [i \in 1..n |-> "warning"]

SignalInput(trend, bias, change, volume, ratio, holders, n) ==
    [CryptoAnalysisResult("onchain", change) EXCEPT
        !.technical.trend_status = trend,
        !.technical.bias_level = bias,
        !.technical.volume_change_24h = volume,
        !.onchain.buy_sell_ratio = ratio,
        !.onchain.holder_change_24h = holders,
        !.risk_warnings = Warnings(n)]

InitSignal ==
    /\ pc = "signal_ready"
    /\ \E trend \in TrendStatus, bias \in BiasLevel, change \in PriceChanges,
          volume \in VolumeChanges, ratio \in BuySellRatios,
          holders \in HolderChanges, n \in 0..MaxWarnings :
            result = SignalInput(trend, bias, change, volume, ratio, holders, n)
    /\ raw_signal = "WAIT"
    /\ IdleClassifier
    /\ IdleFeed
    /\ IdleBatch
    /\ IdleRun
    /\ IdleBot
    /\ IdleCall

GenerateSignal ==
    /\ pc = "signal_ready"
    /\ result' = _generate_signal(result)
    /\ raw_signal' = _generate_signal_raw(result)
    /\ pc' = "signal_done"
    /\ UNCHANGED <<args, ret, BIAS_THRESHOLD_CAUTION, feed, batch_vars, run_vars,
                   bot_vars, api_call>>

NextSignal == GenerateSignal

SpecSignal == InitSignal /\ [][NextSignal]_vars

-----------------------------------------------------------------------------
(* C1: after _generate_signal, signal_strength is an integer in 0..100 *)
(* for every trend status, bias level, 24h price change, volume change,   *)
(* buy/sell ratio, holder change and number of risk warnings.             *)
C1_StrengthInRange ==
    pc = "signal_done" => result.signal_strength \in 0..100

\* all bullish modifiers at once: the unclamped sum exceeds 100
C1_Witness ==
    /\ pc = "signal_done"
    /\ result.technical.trend_status = "BULLISH_ALIGNED"
    /\ result.technical.bias_level = "OVERSOLD"
    /\ RLt(result.price_change_24h, Rat(-20))
    /\ RGt(result.onchain.buy_sell_ratio, <<3, 2>>)
    /\ Len(result.risk_warnings) = 0
    /\ result.signal_strength = 100

-----------------------------------------------------------------------------
(* C2: signal_strength = clamp(50 + sum of the modifiers of the table, 0, *)
(* 100); BULLISH_ALIGNED, CAUTION, price change 3%, buy_sell_ratio 1.8 and *)
(* no warnings give 70.                                                    *)
TableTrend(r) ==
    CASE r.technical.trend_status = "BULLISH_ALIGNED" -> 20
      [] r.technical.trend_status = "BEARISH_ALIGNED" -> -20
      [] r.technical.trend_status = "SHORT_BULLISH" -> 10
      [] r.technical.trend_status = "SHORT_BEARISH" -> -10
      [] OTHER -> 0

TableBias(r) ==
    CASE r.technical.bias_level = "OVERSOLD" -> 15
      [] r.technical.bias_level = "LOW_RISK" -> 10
      [] r.technical.bias_level = "CAUTION" -> -10
      [] r.technical.bias_level = "HIGH_RISK" -> -20
      [] OTHER -> 0

TablePrice(r) ==
    LET p == r.price_change_24h
    IN  CASE RGt(p, Rat(20)) -> -10
          [] RGt(p, Rat(10)) /\ ~RGt(p, Rat(20)) -> -5
          [] RLt(p, Rat(-20)) -> 5
          [] RLt(p, Rat(-10)) /\ ~RLt(p, Rat(-20)) -> 3
          [] OTHER -> 0

TableVolume(r) ==
    LET v == r.technical.volume_change_24h
    IN  CASE ~IsNone(v) /\ RGt(Val(v), Rat(100)) -> 5
          [] ~IsNone(v) /\ RLt(Val(v), Rat(-50)) -> -5
          [] OTHER -> 0

TableBuySell(r) ==
    CASE RGt(r.onchain.buy_sell_ratio, <<3, 2>>) -> 10
      [] RLt(r.onchain.buy_sell_ratio, <<1, 2>>) -> -10
      [] OTHER -> 0

TableHolders(r) ==
    LET h == r.onchain.holder_change_24h
    IN  CASE ~IsNone(h) /\ Val(h) > 100 -> 5
          [] ~IsNone(h) /\ Val(h) < -100 -> -5
          [] OTHER -> 0

TableSum(r) ==
    50 + TableTrend(r) + TableBias(r) + TablePrice(r) + TableVolume(r)
       + TableBuySell(r) + TableHolders(r) - 5 * Len(r.risk_warnings)

TableScore(r) ==
    IF TableSum(r) < 0 THEN 0 ELSE IF TableSum(r) > 100 THEN 100 ELSE TableSum(r)

C2_Example(r) ==
    /\ r.technical.trend_status = "BULLISH_ALIGNED"
    /\ r.technical.bias_level = "CAUTION"
    /\ r.price_change_24h = Rat(3)
    /\ r.onchain.buy_sell_ratio = <<9, 5>>
    /\ IsNone(r.technical.volume_change_24h)
    /\ IsNone(r.onchain.holder_change_24h)
    /\ Len(r.risk_warnings) = 0

C2_ScoreIsTableSum ==
    pc = "signal_done" =>
        /\ result.signal_strength = TableScore(result)
        /\ C2_Example(result) => result.signal_strength = 70

C2_Witness ==
    pc = "signal_done" /\ C2_Example(result) /\ result.signal = "BUY"

-----------------------------------------------------------------------------
(* C3: the raw signal depends on the clamped score only: >= 80 STRONG_BUY, *)
(* 65..79 BUY, 45..64 HOLD, 30..44 SELL, below 30 STRONG_SELL.              *)
C3_RawSignalByThreshold ==
    pc = "signal_done" =>
        LET s == result.signal_strength
        IN  /\ (s >= 80) => raw_signal = "STRONG_BUY"
            /\ (65 <= s /\ s < 80) => raw_signal = "BUY"
            /\ (45 <= s /\ s < 65) => raw_signal = "HOLD"
            /\ (30 <= s /\ s < 45) => raw_signal = "SELL"
            /\ (s < 30) => raw_signal = "STRONG_SELL"

\* a score on a boundary
C3_Witness ==
    /\ pc = "signal_done"
    /\ result.signal_strength = 65
    /\ raw_signal = "BUY"

-----------------------------------------------------------------------------
(* C4: with 3 or more risk warnings the raw signal is lowered by exactly   *)
(* one tier and only from the buy side (STRONG_BUY to BUY, BUY to HOLD;    *)
(* HOLD, SELL, STRONG_SELL unchanged); with fewer than 3 warnings the raw  *)
(* signal is the final signal.                                             *)
C4_DowngradeOneTier ==
    pc = "signal_done" =>
        IF Len(result.risk_warnings) >= 3
        THEN /\ raw_signal = "STRONG_BUY" => result.signal = "BUY"
             /\ raw_signal = "BUY" => result.signal = "HOLD"
             /\ raw_signal \in {"HOLD", "SELL", "STRONG_SELL"}
                    => result.signal = raw_signal
        ELSE result.signal = raw_signal

C4_Witness ==
    /\ pc = "signal_done"
    /\ Len(result.risk_warnings) = 3
    /\ raw_signal = "STRONG_BUY"
    /\ result.signal = "BUY"

-----------------------------------------------------------------------------
(* Specification SpecTrend: _determine_trend on optional averages *)

MAValues == {<<-1, 1>>, <<0, 1>>, <<1, 1>>, <<3, 2>>, <<2, 1>>}

OptionalMA == {None} \cup {Some(v) : v \in MAValues}

InitTrend ==
    /\ pc = "trend_ready"
    /\ args \in [ma7 : OptionalMA, ma25 : OptionalMA, ma99 : OptionalMA]
    /\ ret = None
    /\ BIAS_THRESHOLD_CAUTION = DEFAULT_BIAS_THRESHOLD_CAUTION
    /\ IdleSignal
    /\ IdleFeed
    /\ IdleBatch
    /\ IdleRun
    /\ IdleBot
    /\ IdleCall

DetermineTrend ==
    /\ pc = "trend_ready"
    /\ ret' = _determine_trend(args.ma7, args.ma25, args.ma99)
    /\ pc' = "trend_done"
    /\ UNCHANGED <<args, BIAS_THRESHOLD_CAUTION, result, raw_signal, feed, batch_vars, run_vars,
                   bot_vars, api_call>>

NextTrend == DetermineTrend

SpecTrend == InitTrend /\ [][NextTrend]_vars

(* C6: _determine_trend: ma7 absent gives INSUFFICIENT_DATA; with ma25 and *)
(* ma99 present, BULLISH_ALIGNED iff ma7 > ma25 > ma99, BEARISH_ALIGNED iff *)
(* ma7 < ma25 < ma99, otherwise (any tie) CONSOLIDATING; with ma25 present *)
(* and ma99 absent, SHORT_BULLISH iff ma7 > ma25, else SHORT_BEARISH (tie    *)
(* included); ma25 absent gives INSUFFICIENT_DATA.                          *)
C6_TrendRules ==
    pc = "trend_done" =>
        LET a == args.ma7
            b == args.ma25
            c == args.ma99
            up == RGt(Val(a), Val(b)) /\ RGt(Val(b), Val(c))
            down == RLt(Val(a), Val(b)) /\ RLt(Val(b), Val(c))
        IN  /\ IsNone(a) => ret = "INSUFFICIENT_DATA"
            /\ (~IsNone(a) /\ ~IsNone(b) /\ ~IsNone(c)) =>
                   /\ (ret = "BULLISH_ALIGNED") <=> up
                   /\ (ret = "BEARISH_ALIGNED") <=> down
                   /\ (~up /\ ~down) => ret = "CONSOLIDATING"
            /\ (~IsNone(a) /\ ~IsNone(b) /\ IsNone(c)) =>
                   /\ (ret = "SHORT_BULLISH") <=> RGt(Val(a), Val(b))
                   /\ ~RGt(Val(a), Val(b)) => ret = "SHORT_BEARISH"
            /\ IsNone(b) => ret = "INSUFFICIENT_DATA"

\* the tie ma7 > ma25 = ma99
C6_Witness ==
    /\ pc = "trend_done"
    /\ ~IsNone(args.ma7) /\ ~IsNone(args.ma25) /\ ~IsNone(args.ma99)
    /\ RGt(Val(args.ma7), Val(args.ma25))
    /\ REq(Val(args.ma25), Val(args.ma99))
    /\ ret = "CONSOLIDATING"

-----------------------------------------------------------------------------
(* Specification SpecBias: __init__ reads the caution threshold from the   *)
(* configuration, then _determine_bias_level classifies a bias             *)

MaxBias == 16

\* values config.bias_threshold may hold; nothing in the analyzer validates it
BiasThresholdConfig == {Rat(3), Rat(5), Rat(10), Rat(15)}

OptionalBias == {None} \cup {Some(Rat(n)) : n \in (0 - MaxBias)..MaxBias}

InitBias ==
    /\ pc = "bias_new"
    /\ args = None
    /\ ret = None
    /\ BIAS_THRESHOLD_CAUTION = DEFAULT_BIAS_THRESHOLD_CAUTION
    /\ IdleSignal
    /\ IdleFeed
    /\ IdleBatch
    /\ IdleRun
    /\ IdleBot
    /\ IdleCall

\* __init__: self.BIAS_THRESHOLD_CAUTION = self.config.bias_threshold
Construct ==
    /\ pc = "bias_new"
    /\ \E bias_threshold \in BiasThresholdConfig :
          BIAS_THRESHOLD_CAUTION' = bias_threshold
    /\ pc' = "bias_ready"
    /\ UNCHANGED <<args, ret, result, raw_signal, feed, batch_vars, run_vars,
                   bot_vars, api_call>>

DetermineBiasLevel ==
    /\ pc = "bias_ready"
    /\ \E bias \in OptionalBias :
          /\ args' = bias
          /\ ret' = _determine_bias_level(bias, BIAS_THRESHOLD_CAUTION)
    /\ pc' = "bias_done"
    /\ UNCHANGED <<BIAS_THRESHOLD_CAUTION, result, raw_signal, feed, batch_vars, run_vars,
                   bot_vars, api_call>>

NextBias == Construct \/ DetermineBiasLevel

SpecBias == InitBias /\ [][NextBias]_vars

\* the bucket table of the bias classifier for thresholds low and caution
BiasTable(bias, low, caution, level) ==
    /\ IsNone(bias) => level = "NORMAL"
    /\ ~IsNone(bias) =>
          /\ RLt(Val(bias), RNeg(caution)) => level = "OVERSOLD"
          /\ (RGe(Val(bias), RNeg(caution)) /\ RLt(Val(bias), Rat(0)))
                => level = "LOW_RISK"
          /\ (RGe(Val(bias), Rat(0)) /\ RLt(Val(bias), low)) => level = "NORMAL"
          /\ (RGe(Val(bias), low) /\ RLt(Val(bias), caution)) => level = "CAUTION"
          /\ RGe(Val(bias), caution) => level = "HIGH_RISK"

(* C7 as stated: for every bias7 and every configured pair of thresholds   *)
(* low and caution the classifier returns the bucket of the table (absent  *)
(* NORMAL; < -caution OVERSOLD; [-caution, 0) LOW_RISK; [0, low) NORMAL;    *)
(* [low, caution) CAUTION; >= caution HIGH_RISK).                           *)
C7_Original ==
    pc = "bias_done" =>
        BiasTable(args, BIAS_THRESHOLD_LOW, BIAS_THRESHOLD_CAUTION, ret)

(* C7 amended: the table holds for every bias7 whenever the configured     *)
(* caution threshold is at least low (low is the fixed 5.0).               *)
C7_Amended ==
    (pc = "bias_done" /\ RGe(BIAS_THRESHOLD_CAUTION, BIAS_THRESHOLD_LOW)) =>
        BiasTable(args, BIAS_THRESHOLD_LOW, BIAS_THRESHOLD_CAUTION, ret)

\* an overridden threshold, bias on the caution boundary
C7_Witness ==
    /\ pc = "bias_done"
    /\ BIAS_THRESHOLD_CAUTION = Rat(15)
    /\ args = Some(Rat(15))
    /\ ret = "HIGH_RISK"

-----------------------------------------------------------------------------
(* Specification SpecAnalyze: analyze(identifier) on the exchange path and *)
(* on the on-chain path, over candle series of every interesting length    *)

\* limit=100 of get_kline and get_pool_ohlcv
KlineLimit == 100

MaxClose == 110

\* distance between close and low, and between high and close
Spread == 1

CandleCounts == {2, 6, 7, 8, 19, 20, 24, 25, 99, KlineLimit}

ClosePrices == {-10, 0, 100, MaxClose}

\* <<volume of every earlier candle, volume of the latest candle>>
VolumePairs == {<<0, 1>>, <<1, 4>>, <<4, 1>>}

\* latest close `last`, the 6 closes before it `a`, the 18 before those `b`,
\* all older closes `c`
Candles(n, last, a, b, c, vp) ==
    [i \in 1..n |->
        LET k == n - i + 1
            close == IF k = 1 THEN last
                     ELSE IF k <= 7 THEN a
                     ELSE IF k <= 25 THEN b
                     ELSE c
        IN  [close |-> close,
             volume |-> IF k = 1 THEN vp[2] ELSE vp[1],
             low |-> close - Spread,
             high |-> close + Spread]]

CandleSeries ==
    {Candles(n, last, a, b, c, vp) :
        n \in CandleCounts, last \in ClosePrices, a \in ClosePrices,
        b \in ClosePrices, c \in ClosePrices, vp \in VolumePairs}

OptionalCandles == {None} \cup {Some(df) : df \in CandleSeries}

Quotes == {[change_24h |-> Rat(3)], [change_24h |-> Rat(-25)]}

\* a healthy token, a risky token, the TokenInfo get_token_info builds, and a
\* token that was only bought
Tokens ==
    {[price_change_24h |-> Rat(3), liquidity_usd |-> Rat(100000),
      fdv |-> None, market_cap |-> None, buys_24h |-> 18, sells_24h |-> 10,
      pool_created_at |-> None],
     [price_change_24h |-> Rat(25), liquidity_usd |-> Rat(5000),
      fdv |-> Some(Rat(1200)), market_cap |-> Some(Rat(100)),
      buys_24h |-> 2, sells_24h |-> 10, pool_created_at |-> Some(Rat(10))],
     [price_change_24h |-> Rat(0), liquidity_usd |-> Rat(0),
      fdv |-> Some(Rat(500)), market_cap |-> None, buys_24h |-> 0,
      sells_24h |-> 0, pool_created_at |-> None],
     [price_change_24h |-> Rat(3), liquidity_usd |-> Rat(100000),
      fdv |-> None, market_cap |-> None, buys_24h |-> 7, sells_24h |-> 0,
      pool_created_at |-> None]}

Feed(type, error, quote, kline, token, main_pool, df) ==
    [type |-> type, error |-> error, quote |-> quote, kline |-> kline,
     token |-> token, main_pool |-> main_pool, df |-> df]

ExchangeFeeds ==
    {Feed("exchange", TRUE, None, None, None, FALSE, None),
     Feed("exchange", FALSE, None, None, None, FALSE, None)}
    \cup {Feed("exchange", FALSE, Some(q), k, None, FALSE, None) :
            q \in Quotes, k \in OptionalCandles}

OnchainFeeds ==
    {Feed("onchain", TRUE, None, None, None, FALSE, None),
     Feed("onchain", FALSE, None, None, None, FALSE, None)}
    \cup {Feed("onchain", FALSE, None, None, Some(t), FALSE, None) : t \in Tokens}
    \cup {Feed("onchain", FALSE, None, None, Some(t), TRUE, d) :
            t \in Tokens, d \in OptionalCandles}

InitAnalyze ==
    /\ pc = "analyze_ready"
    /\ feed \in ExchangeFeeds \cup OnchainFeeds
    /\ ret = None
    /\ args = None
    /\ BIAS_THRESHOLD_CAUTION = DEFAULT_BIAS_THRESHOLD_CAUTION
    /\ IdleSignal
    /\ IdleBatch
    /\ IdleRun
    /\ IdleBot
    /\ IdleCall

AnalyzeExchangeToken ==
    /\ pc = "analyze_ready"
    /\ feed.type = "exchange"
    /\ ret' = analyze(feed, BIAS_THRESHOLD_CAUTION)
    /\ pc' = "analyze_done"
    /\ UNCHANGED <<args, BIAS_THRESHOLD_CAUTION, result, raw_signal, feed, batch_vars, run_vars,
                   bot_vars, api_call>>

AnalyzeOnchainToken ==
    /\ pc = "analyze_ready"
    /\ feed.type = "onchain"
    /\ ret' = analyze(feed, BIAS_THRESHOLD_CAUTION)
    /\ pc' = "analyze_done"
    /\ UNCHANGED <<args, BIAS_THRESHOLD_CAUTION, result, raw_signal, feed, batch_vars, run_vars,
                   bot_vars, api_call>>

NextAnalyze == AnalyzeExchangeToken \/ AnalyzeOnchainToken

SpecAnalyze == InitAnalyze /\ [][NextAnalyze]_vars

\* the quote or the token was fetched and no collaborator raised
FetchOk ==
    /\ ~feed.error
    /\ feed.type = "exchange" => ~IsNone(feed.quote)
    /\ feed.type = "onchain" => ~IsNone(feed.token)

\* the candle series fetched for the identifier, None if there is none
FetchedSeries ==
    IF feed.type = "exchange" THEN feed.kline
    ELSE IF feed.main_pool THEN feed.df ELSE None

CandleCount == IF IsNone(FetchedSeries) THEN 0 ELSE Len(Val(FetchedSeries))

\* mean of the last w closes of the fetched series
TailMean(w) ==
    LET df == Val(FetchedSeries)
    IN  <<SumClose(df, Len(df) - w + 1, Len(df)), w>>

LatestClose == Val(FetchedSeries)[CandleCount].close

(* C8: with fewer than 7 candles the analysis still returns a result, with *)
(* ma7, ma25, ma99, bias_7 and bias_25 absent, trend_status                *)
(* INSUFFICIENT_DATA and bias_level NORMAL, whatever the prices are.       *)
C8_ShortSeries ==
    (pc = "analyze_done" /\ FetchOk /\ CandleCount < 7) =>
        /\ ~IsNone(ret)
        /\ IsNone(Val(ret).technical.ma7)
        /\ IsNone(Val(ret).technical.ma25)
        /\ IsNone(Val(ret).technical.ma99)
        /\ IsNone(Val(ret).technical.bias_7)
        /\ IsNone(Val(ret).technical.bias_25)
        /\ Val(ret).technical.trend_status = "INSUFFICIENT_DATA"
        /\ Val(ret).technical.bias_level = "NORMAL"

C8_Witness ==
    /\ pc = "analyze_done"
    /\ FetchOk
    /\ CandleCount = 6
    /\ LatestClose = MaxClose
    /\ ~IsNone(ret)
    /\ Val(ret).technical.trend_status = "INSUFFICIENT_DATA"

\* presence and value of one moving average for window w
AverageRule(ma, w) ==
    /\ ~IsNone(ma) <=> CandleCount >= w
    /\ ~IsNone(ma) => REq(Val(ma), TailMean(w)) /\ Val(ma)[2] # 0

(* C9: for every fetched candle series of length N, on the exchange path   *)
(* and on the on-chain path alike, ma7 is present exactly when N >= 7,     *)
(* ma25 exactly when N >= 25, ma99 exactly when N >= 99, and each present  *)
(* average is the mean of the last 7, 25 or 99 closes.                     *)
C9_Averages ==
    (pc = "analyze_done" /\ FetchOk /\ ~IsNone(FetchedSeries)) =>
        /\ ~IsNone(ret)
        /\ AverageRule(Val(ret).technical.ma7, 7)
        /\ AverageRule(Val(ret).technical.ma25, 25)
        /\ AverageRule(Val(ret).technical.ma99, 99)

\* bias as the claim defines it: (latest close - ma) / ma * 100
BiasFormula(ma) ==
    RTimes(RDiv(RSub(Rat(LatestClose), Val(ma)), Val(ma)), 100)

BiasRuleNonZero(bias, ma) ==
    /\ ~IsNone(bias) <=> (~IsNone(ma) /\ ~REq(Val(ma), Rat(0)))
    /\ ~IsNone(bias) => REq(Val(bias), BiasFormula(ma))

BiasRulePositive(bias, ma) ==
    /\ ~IsNone(bias) <=> (~IsNone(ma) /\ RGt(Val(ma), Rat(0)))
    /\ ~IsNone(bias) => REq(Val(bias), BiasFormula(ma))

(* C10 as stated: bias_7 is present exactly when ma7 is present and        *)
(* ma7 != 0, whatever its sign, and then equals (latest close - ma7) / ma7 *)
(* * 100; the same for bias_25 against ma25.                               *)
C10_Original ==
    (pc = "analyze_done" /\ ~IsNone(ret)) =>
        /\ BiasRuleNonZero(Val(ret).technical.bias_7, Val(ret).technical.ma7)
        /\ BiasRuleNonZero(Val(ret).technical.bias_25, Val(ret).technical.ma25)

(* C10 amended: bias_7 is present exactly when ma7 is present and ma7 > 0, *)
(* and then equals (latest close - ma7) / ma7 * 100; the same for bias_25  *)
(* against ma25.                                                           *)
C10_Amended ==
    (pc = "analyze_done" /\ ~IsNone(ret)) =>
        /\ BiasRulePositive(Val(ret).technical.bias_7, Val(ret).technical.ma7)
        /\ BiasRulePositive(Val(ret).technical.bias_25, Val(ret).technical.ma25)

\* a non-zero bias_7 and a bias_25 left absent by a negative ma25
C10_Witness ==
    /\ pc = "analyze_done"
    /\ ~IsNone(ret)
    /\ ~IsNone(Val(ret).technical.bias_7)
    /\ Val(Val(ret).technical.bias_7)[1] # 0
    /\ ~IsNone(Val(ret).technical.ma25)
    /\ RLt(Val(Val(ret).technical.ma25), Rat(0))
    /\ IsNone(Val(ret).technical.bias_25)

-----------------------------------------------------------------------------
(* Specification SpecBatch: the two batch runners, analyze_batch of the    *)
(* trend analyzer and run() of the pipeline with its worker pool           *)

MaxSymbols == 3

MaxWorkers == 2

\* feeds of the submitted symbols: a collaborator that raises, a failed
\* fetch, and analyses that succeed, two of them with the same strength
BatchFeeds ==
    {Feed("exchange", TRUE, None, None, None, FALSE, None),
     Feed("exchange", FALSE, None, None, None, FALSE, None),
     Feed("exchange", FALSE, Some([change_24h |-> Rat(3)]),
          Some(Candles(7, 110, 100, 100, 100, <<1, 4>>)), None, FALSE, None),
     Feed("exchange", FALSE, Some([change_24h |-> Rat(-25)]), None, None,
          FALSE, None),
     Feed("onchain", FALSE, None, None,
          Some([price_change_24h |-> Rat(-25), liquidity_usd |-> Rat(100000),
                fdv |-> None, market_cap |-> None, buys_24h |-> 10,
                sells_24h |-> 10, pool_created_at |-> None]),
          FALSE, None)}

SymbolLists == UNION {[1..n -> BatchFeeds] : n \in 0..MaxSymbols}

RunConfigs ==
    [max_workers : 1..MaxWorkers, dry_run : BOOLEAN,
     send_notification : BOOLEAN, single_crypto_notify : BOOLEAN]

InitBatch ==
    /\ pc \in {"batch_loop", "run_start"}
    /\ identifiers \in SymbolLists
    /\ cursor = 1
    /\ results = <<>>
    /\ processed = <<>>
    /\ IF pc = "run_start" THEN run_cfg \in RunConfigs
       ELSE run_cfg = [max_workers |-> 1, dry_run |-> FALSE,
                       send_notification |-> FALSE,
                       single_crypto_notify |-> FALSE]
    /\ futures = <<>>
    /\ collected = <<>>
    /\ notified = <<>>
    /\ analyzer = GeminiAnalyzer
    /\ IdleBot
    /\ IdleCall
    /\ ret = None
    /\ args = None
    /\ BIAS_THRESHOLD_CAUTION = DEFAULT_BIAS_THRESHOLD_CAUTION
    /\ IdleSignal
    /\ feed = [type |-> "none", error |-> FALSE, quote |-> None, kline |-> None,
               token |-> None, main_pool |-> FALSE, df |-> None]

\* one iteration of `for identifier in identifiers`
BatchAnalyze ==
    /\ pc = "batch_loop"
    /\ cursor <= Len(identifiers)
    /\ results' = BatchCollect(results,
                      analyze(identifiers[cursor], BIAS_THRESHOLD_CAUTION))
    /\ processed' = Append(processed, cursor)
    /\ cursor' = cursor + 1
    /\ UNCHANGED <<pc, identifiers, ret, args, BIAS_THRESHOLD_CAUTION,
                   result, raw_signal, feed, run_vars,
                   bot_vars, api_call>>

\* the loop is over: sort and return
BatchReturn ==
    /\ pc = "batch_loop"
    /\ cursor > Len(identifiers)
    /\ ret' = SortByStrength(results)
    /\ pc' = "batch_done"
    /\ UNCHANGED <<args, BIAS_THRESHOLD_CAUTION, result, raw_signal, feed,
                   batch_vars, run_vars,
                   bot_vars, api_call>>

\* run(): an empty list returns at once, otherwise every symbol is submitted
RunSubmit ==
    /\ pc = "run_start"
    /\ IF identifiers = <<>>
       THEN pc' = "run_done" /\ ret' = <<>> /\ futures' = <<>>
       ELSE /\ pc' = "run_collect"
            /\ ret' = ret
            /\ futures' = [i \in 1..Len(identifiers) |->
                              [state |-> "queued", value |-> None]]
    /\ UNCHANGED <<args, BIAS_THRESHOLD_CAUTION, result, raw_signal, feed,
                   batch_vars, run_cfg, collected, notified, analyzer,
                   bot_vars, api_call>>

\* a free worker thread takes the oldest queued future
WorkerStart(i) ==
    /\ pc = "run_collect"
    /\ NextQueued(futures, i)
    /\ HasIdleWorker(futures, run_cfg.max_workers)
    /\ futures' = [futures EXCEPT ![i].state = "running"]
    /\ processed' = Append(processed, i)
    /\ UNCHANGED <<pc, ret, args, BIAS_THRESHOLD_CAUTION, result, raw_signal,
                   feed, identifiers, cursor, results, run_cfg, collected,
                   notified, analyzer,
                   bot_vars, api_call>>

\* process_single_crypto returns in the worker thread
WorkerFinish(i) ==
    /\ pc = "run_collect"
    /\ futures[i].state = "running"
    /\ \E rate_limited \in BOOLEAN :
          LET out == process_single_crypto(
                         identifiers[i], run_cfg.dry_run,
                         run_cfg.single_crypto_notify /\ run_cfg.send_notification,
                         analyzer, rate_limited)
          IN  /\ futures' = [futures EXCEPT ![i] =
                                 [state |-> "done", value |-> out.value]]
              /\ notified' = IF out.pushed
                             THEN Append(notified, [kind |-> "single", of |-> i])
                             ELSE notified
              /\ analyzer' = out.analyzer
    /\ UNCHANGED <<pc, ret, args, BIAS_THRESHOLD_CAUTION, result, raw_signal,
                   feed, batch_vars, run_cfg, collected,
                   bot_vars, api_call>>

\* as_completed yields a finished future; its result is appended if any
Collect(i) ==
    /\ pc = "run_collect"
    /\ futures[i].state = "done"
    /\ \A k \in 1..Len(collected) : collected[k] # i
    /\ results' = BatchCollect(results, futures[i].value)
    /\ collected' = Append(collected, i)
    /\ UNCHANGED <<pc, ret, args, BIAS_THRESHOLD_CAUTION, result, raw_signal,
                   feed, identifiers, cursor, processed, run_cfg, futures,
                   notified, analyzer,
                   bot_vars, api_call>>

\* every future was collected: the executor is shut down, the aggregate
\* report is saved and, unless single pushes were made, pushed
RunReturn ==
    /\ pc = "run_collect"
    /\ Len(collected) = Len(identifiers)
    /\ notified' =
          IF ShouldNotify(results, run_cfg)
          THEN IF run_cfg.single_crypto_notify
               THEN Append(notified, [kind |-> "saved", of |-> 0])
               ELSE notified \o <<[kind |-> "saved", of |-> 0],
                                  [kind |-> "aggregate", of |-> 0]>>
          ELSE notified
    /\ ret' = results
    /\ pc' = "run_done"
    /\ UNCHANGED <<args, BIAS_THRESHOLD_CAUTION, result, raw_signal, feed,
                   batch_vars, run_cfg, futures, collected, analyzer,
                   bot_vars, api_call>>

NextBatch ==
    \/ BatchAnalyze
    \/ BatchReturn
    \/ RunSubmit
    \/ \E i \in 1..Len(futures) : WorkerStart(i)
    \/ \E i \in 1..Len(futures) : WorkerFinish(i)
    \/ \E i \in 1..Len(futures) : Collect(i)
    \/ RunReturn

SpecBatch == InitBatch /\ [][NextBatch]_vars

\* the symbols of the submitted list whose analysis can succeed: no
\* collaborator raises and the quote, or the token, was fetched
Succeeded ==
    {i \in 1..Len(identifiers) :
        /\ ~identifiers[i].error
        /\ identifiers[i].type = "exchange" => ~IsNone(identifiers[i].quote)
        /\ identifiers[i].type = "onchain" => ~IsNone(identifiers[i].token)}

\* the units of work of run() that returned a result
Returned == {i \in 1..Len(futures) : ~IsNone(futures[i].value)}

\* every index of the submitted list occurs exactly once in the call log
EachOnce ==
    /\ Len(processed) = Len(identifiers)
    /\ \A i \in 1..Len(identifiers) :
          Cardinality({k \in 1..Len(processed) : processed[k] = i}) = 1

-----------------------------------------------------------------------------
(* Claims on the volume change, checked under SpecAnalyze *)

\* v[N-1] and v[N-2] of the fetched series
LatestVolume == Val(FetchedSeries)[CandleCount].volume

PreviousVolume == Val(FetchedSeries)[CandleCount - 1].volume

(* C11: volume_change_24h is present exactly when the series has at least  *)
(* 2 candles and the previous candle's volume is not 0, and then equals    *)
(* (v[N-1] - v[N-2]) / v[N-2] * 100; in particular for 2 to 6 candles.     *)
C11_VolumeChange ==
    (pc = "analyze_done" /\ ~IsNone(ret)) =>
        LET vc == Val(ret).technical.volume_change_24h
        IN  /\ ~IsNone(vc) <=> (CandleCount >= 2 /\ PreviousVolume # 0)
            /\ ~IsNone(vc) =>
                 REq(Val(vc), RTimes(RDiv(Rat(LatestVolume - PreviousVolume),
                                          Rat(PreviousVolume)), 100))

-----------------------------------------------------------------------------
(* Specification SpecRisk: _check_onchain_risks applied to the TokenInfo   *)
(* built from any supplied keywords; args holds the keywords               *)

LiquidityFigures ==
    {None} \cup {Some(Rat(n)) : n \in {0, 9999, 10000, 49999, 50000, 100000}}

FdvFigures == {None} \cup {Some(Rat(n)) : n \in {0, 1000, 1001}}

MarketCapFigures == {None} \cup {Some(Rat(n)) : n \in {-100, 0, 100}}

\* <<buys_24h, sells_24h>>, None when the transaction counts are not supplied
TxnCounts ==
    {None, Some(<<0, 0>>), Some(<<5, 0>>), Some(<<4, 10>>), Some(<<5, 10>>),
     Some(<<18, 10>>)}

\* age of the pool in hours
PoolAges == {None} \cup {Some(Rat(n)) : n \in {0, 23, 24, 71, 72}}

TokenKeywords ==
    [liquidity_usd : LiquidityFigures, fdv : FdvFigures,
     market_cap : MarketCapFigures, txns : TxnCounts,
     pool_created_at : PoolAges]

\* the TokenInfo the keywords construct
TokenOf(kw) ==
    TokenInfo([price_change_24h |-> Rat(0),
               liquidity_usd |-> kw.liquidity_usd,
               fdv |-> kw.fdv,
               market_cap |-> kw.market_cap,
               buys_24h |-> IF IsNone(kw.txns) THEN None
                            ELSE Some(Val(kw.txns)[1]),
               sells_24h |-> IF IsNone(kw.txns) THEN None
                             ELSE Some(Val(kw.txns)[2]),
               pool_created_at |-> kw.pool_created_at])

InitRisk ==
    /\ pc = "risk_ready"
    /\ \E kw \in TokenKeywords : args = Some(kw)
    /\ result = CryptoAnalysisResult("onchain", Rat(0))
    /\ raw_signal = "WAIT"
    /\ ret = None
    /\ BIAS_THRESHOLD_CAUTION = DEFAULT_BIAS_THRESHOLD_CAUTION
    /\ IdleFeed
    /\ IdleBatch
    /\ IdleRun
    /\ IdleBot
    /\ IdleCall

CheckOnchainRisks ==
    /\ pc = "risk_ready"
    /\ result' = _check_onchain_risks(result, TokenOf(Val(args)))
    /\ pc' = "risk_done"
    /\ UNCHANGED <<args, ret, raw_signal, BIAS_THRESHOLD_CAUTION, feed,
                   batch_vars, run_vars,
                   bot_vars, api_call>>

NextRisk == CheckOnchainRisks

SpecRisk == InitRisk /\ [][NextRisk]_vars

\* the rule group a warning tag belongs to, in the order of the groups
RuleGroup(tag) ==
    IF tag \in {"liquidity_very_low", "liquidity_low"} THEN 1
    ELSE IF tag = "fdv_ratio_high" THEN 2
    ELSE IF tag = "sell_pressure" THEN 3
    ELSE 4

Emitted(tag) ==
    \E k \in 1..Len(result.risk_warnings) : result.risk_warnings[k] = tag

\* the figures the detector reads
Liquidity == TokenOf(Val(args)).liquidity_usd

Buys == TokenOf(Val(args)).buys_24h

Sells == TokenOf(Val(args)).sells_24h

FdvRatioAbove10 ==
    /\ ~IsNone(Val(args).fdv)
    /\ ~IsNone(Val(args).market_cap)
    /\ Val(Val(args).market_cap)[1] > 0
    /\ Val(Val(args).fdv)[1] > 10 * Val(Val(args).market_cap)[1]

PoolAgeBelow(hours) ==
    /\ ~IsNone(Val(args).pool_created_at)
    /\ Val(Val(args).pool_created_at)[1] < hours

(* C12: the risk detector evaluates all four rule groups on every call and *)
(* emits the warnings in the order liquidity, FDV/market cap, buy/sell,    *)
(* pool age, at most one per group: liquidity < 10,000 gives only the      *)
(* 'extremely low' warning, 10,000 <= liquidity < 50,000 only the 'low'    *)
(* one; fdv / market_cap > 10 gives a warning; buys / sells < 0.5 with     *)
(* sells > 0 gives a warning; age < 24h gives only the 'new pool risk'     *)
(* warning and 24h <= age < 72h only the 'new pool (<3d)' one.             *)
C12_RiskRules ==
    pc = "risk_done" =>
        /\ \A k \in 1..(Len(result.risk_warnings) - 1) :
              RuleGroup(result.risk_warnings[k])
                  < RuleGroup(result.risk_warnings[k + 1])
        /\ Emitted("liquidity_very_low") <=> Liquidity[1] < 10000
        /\ Emitted("liquidity_low") <=>
              (Liquidity[1] >= 10000 /\ Liquidity[1] < 50000)
        /\ Emitted("fdv_ratio_high") <=> FdvRatioAbove10
        /\ Emitted("sell_pressure") <=> (Sells > 0 /\ 2 * Buys < Sells)
        /\ Emitted("new_pool_24h") <=> PoolAgeBelow(24)
        /\ Emitted("new_pool_3d") <=> (PoolAgeBelow(72) /\ ~PoolAgeBelow(24))

\* all four groups fire on one call
C12_Witness ==
    /\ pc = "risk_done"
    /\ result.risk_warnings =
          <<"liquidity_low", "fdv_ratio_high", "sell_pressure", "new_pool_3d">>

(* C13: the risk detector has no error outcome, and a rule yields no       *)
(* warning when its input is absent: no liquidity figure supplied; fdv or  *)
(* market_cap absent or market_cap <= 0; sells_24h = 0; pool_created_at    *)
(* absent; the other rules are still evaluated.                            *)
C13_AbsentInputs ==
    pc = "risk_done" =>
        /\ IsNone(Val(args).liquidity_usd) =>
              ~Emitted("liquidity_very_low") /\ ~Emitted("liquidity_low")
        /\ (\/ IsNone(Val(args).fdv)
            \/ IsNone(Val(args).market_cap)
            \/ Val(Val(args).market_cap)[1] <= 0) => ~Emitted("fdv_ratio_high")
        /\ Sells = 0 => ~Emitted("sell_pressure")
        /\ IsNone(Val(args).pool_created_at) =>
              ~Emitted("new_pool_24h") /\ ~Emitted("new_pool_3d")

-----------------------------------------------------------------------------
(* Claims on the reason tags, checked under SpecSignal *)

HasReason(tag) ==
    \E k \in 1..Len(result.signal_reasons) : result.signal_reasons[k] = tag

\* the signal was lowered one tier by the downgrade rule
Downgraded ==
    /\ Len(result.risk_warnings) >= 3
    /\ raw_signal \in {"STRONG_BUY", "BUY"}
    /\ result.signal # raw_signal

(* C14 as stated: the 'multiple risk factors' tag is in signal_reasons     *)
(* exactly when 3 or more warnings lower a raw STRONG_BUY or BUY by one    *)
(* tier; a result whose signal was not downgraded does not carry it.       *)
C14_Original ==
    pc = "signal_done" => (HasReason("multiple_risks") <=> Downgraded)

(* C14 amended: the 'multiple risk factors' tag is appended, as the last   *)
(* reason, exactly when there are 3 or more risk warnings, whether or not  *)
(* the signal changes tier.                                                *)
C14_Amended ==
    pc = "signal_done" =>
        /\ HasReason("multiple_risks") <=> Len(result.risk_warnings) >= 3
        /\ \A k \in 1..Len(result.signal_reasons) :
              result.signal_reasons[k] = "multiple_risks"
                  => k = Len(result.signal_reasons)

\* 3 warnings on a raw HOLD: the tag is there and the signal is unchanged
C14_Witness ==
    /\ pc = "signal_done"
    /\ Len(result.risk_warnings) = 3
    /\ raw_signal = "HOLD"
    /\ result.signal = "HOLD"
    /\ HasReason("multiple_risks")

\* the modifier group a reason tag records, in evaluation order
ReasonGroup(tag) ==
    CASE tag \in {"bullish_aligned", "bearish_aligned", "short_bullish",
                  "short_bearish"} -> 1
      [] tag \in {"oversold", "low_risk", "bias_high", "no_chasing"} -> 2
      [] tag \in {"surge_24h", "deep_pullback"} -> 3
      [] tag \in {"volume_up", "volume_down"} -> 4
      [] tag \in {"buy_pressure", "sell_pressure"} -> 5
      [] tag \in {"holders_up", "holders_down"} -> 6
      [] OTHER -> 7

Recorded(group) ==
    \E k \in 1..Len(result.signal_reasons) :
        ReasonGroup(result.signal_reasons[k]) = group

(* C15 as stated: every score modifier that is applied is recorded as a    *)
(* reason tag, the -5 and +3 price tiers and the per-warning penalty       *)
(* included, and the tags appear in the order the modifiers are evaluated. *)
C15_Original ==
    pc = "signal_done" =>
        /\ TableTrend(result) # 0 => Recorded(1)
        /\ TableBias(result) # 0 => Recorded(2)
        /\ TablePrice(result) # 0 => Recorded(3)
        /\ TableVolume(result) # 0 => Recorded(4)
        /\ TableBuySell(result) # 0 => Recorded(5)
        /\ TableHolders(result) # 0 => Recorded(6)
        /\ Len(result.risk_warnings) > 0 => Recorded(7)
        /\ \A k \in 1..(Len(result.signal_reasons) - 1) :
              ReasonGroup(result.signal_reasons[k])
                  < ReasonGroup(result.signal_reasons[k + 1])

(* C15 amended: the trend, bias, volume, buy/sell and holder modifiers and *)
(* the price tiers above 20% and below -20% are each recorded as a reason  *)
(* tag when applied, in evaluation order; the -5 and +3 price tiers and    *)
(* the per-warning penalty change the score without a tag, and 3 or more   *)
(* warnings add the 'multiple risk factors' tag last.                      *)
C15_Amended ==
    pc = "signal_done" =>
        /\ TableTrend(result) # 0 <=> Recorded(1)
        /\ TableBias(result) # 0 <=> Recorded(2)
        /\ TablePrice(result) \in {-10, 5} <=> Recorded(3)
        /\ TableVolume(result) # 0 <=> Recorded(4)
        /\ TableBuySell(result) # 0 <=> Recorded(5)
        /\ TableHolders(result) # 0 <=> Recorded(6)
        /\ Len(result.risk_warnings) >= 3 <=> Recorded(7)
        /\ \A k \in 1..(Len(result.signal_reasons) - 1) :
              ReasonGroup(result.signal_reasons[k])
                  < ReasonGroup(result.signal_reasons[k + 1])

\* a price change between 10% and 20% and one warning lower the score and
\* leave no tag, between the trend tag and the buy/sell tag
C15_Witness ==
    /\ pc = "signal_done"
    /\ TablePrice(result) = -5
    /\ Len(result.risk_warnings) = 1
    /\ result.signal_reasons = <<"bullish_aligned", "buy_pressure">>

-----------------------------------------------------------------------------
(* Claims on the boundaries of the bias classifier, checked under SpecBias *)

\* the classified bias is exactly the value b
BiasIs(b) == ~IsNone(args) /\ REq(Val(args), b)

-----------------------------------------------------------------------------
(* Claims on the returned signal and the buy/sell ratio, checked under     *)
(* SpecAnalyze                                                             *)

(* C19: every result analyze() returns, on the exchange path and on the    *)
(* on-chain path, has a signal among STRONG_BUY, BUY, HOLD, SELL and       *)
(* STRONG_SELL; the placeholder WAIT of a fresh result is never returned.  *)
C19_NeverWait ==
    (pc = "analyze_done" /\ ~IsNone(ret)) =>
        Val(ret).signal \in {"STRONG_BUY", "BUY", "HOLD", "SELL", "STRONG_SELL"}

\* an on-chain token without candles: the fresh result is still scored
C19_Witness ==
    /\ pc = "analyze_done"
    /\ feed.type = "onchain"
    /\ CandleCount = 0
    /\ ~IsNone(ret)
    /\ Val(ret).signal = "HOLD"

InList(tag, list) == \E k \in 1..Len(list) : list[k] = tag

(* C20: buy_sell_ratio is buys_24h / sells_24h when sells_24h > 0 and 1.0  *)
(* when sells_24h is 0, whatever buys_24h is; with zero sells neither      *)
(* buy/sell score modifier applies and no sell-pressure warning is raised. *)
C20_BuySellRatio ==
    (pc = "analyze_done" /\ ~IsNone(ret) /\ feed.type = "onchain") =>
        LET buys == Val(feed.token).buys_24h
            sells == Val(feed.token).sells_24h
            r == Val(ret)
        IN  /\ sells > 0 =>
                 /\ r.onchain.buy_sell_ratio[1] * sells
                        = buys * r.onchain.buy_sell_ratio[2]
                 /\ r.onchain.buy_sell_ratio[2] > 0
            /\ sells = 0 =>
                 /\ r.onchain.buy_sell_ratio = <<1, 1>>
                 /\ ~InList("buy_pressure", r.signal_reasons)
                 /\ ~InList("sell_pressure", r.signal_reasons)
                 /\ ~InList("sell_pressure", r.risk_warnings)

\* 7 buys and no sells
C20_Witness ==
    /\ pc = "analyze_done"
    /\ feed.type = "onchain"
    /\ ~IsNone(ret)
    /\ Val(feed.token).buys_24h = 7
    /\ Val(feed.token).sells_24h = 0
    /\ Val(ret).onchain.buy_sell_ratio = <<1, 1>>

-----------------------------------------------------------------------------
(* Claims on the worker pool of run(), checked under SpecBatch *)

InState(state) == {i \in 1..Len(futures) : futures[i].state = state}

\* no index occurs twice in the sequence
NoRepeat(seq) ==
    \A j, k \in 1..Len(seq) : seq[j] = seq[k] => j = k

\* the values of the collected futures that are results, in collection order
RECURSIVE CollectedValues(_)
CollectedValues(seq) ==
    IF seq = <<>> THEN <<>>
    ELSE LET rest == CollectedValues(SubSeq(seq, 1, Len(seq) - 1))
             v == futures[seq[Len(seq)]].value
         IN  IF IsNone(v) THEN rest ELSE Append(rest, Val(v))

AloneOutcome(i) ==
    {process_single_crypto(
         identifiers[i], run_cfg.dry_run,
         run_cfg.single_crypto_notify /\ run_cfg.send_notification,
         GeminiAnalyzer, rate_limited).value : rate_limited \in BOOLEAN}

-----------------------------------------------------------------------------
(* Claims on support and resistance, checked under SpecAnalyze *)

\* positions of the last 20 candles of the fetched series
Last20 == (CandleCount - 19)..CandleCount

(* C21: support_level and resistance_level are present exactly when the    *)
(* series has at least 20 candles, and then are the minimum of the last 20 *)
(* lows and the maximum of the last 20 highs, so support <= resistance     *)
(* when every candle has low <= high.                                      *)
C21_SupportResistance ==
    (pc = "analyze_done" /\ ~IsNone(ret)) =>
        LET support == Val(ret).technical.support_level
            resistance == Val(ret).technical.resistance_level
            df == Val(FetchedSeries)
        IN  /\ ~IsNone(support) <=> CandleCount >= 20
            /\ ~IsNone(resistance) <=> CandleCount >= 20
            /\ CandleCount >= 20 =>
                 /\ Val(support)[2] = 1
                 /\ Val(resistance)[2] = 1
                 /\ \E k \in Last20 : df[k].low = Val(support)[1]
                 /\ \A k \in Last20 : df[k].low >= Val(support)[1]
                 /\ \E k \in Last20 : df[k].high = Val(resistance)[1]
                 /\ \A k \in Last20 : df[k].high <= Val(resistance)[1]
                 /\ Val(support)[1] <= Val(resistance)[1]

\* 24 candles whose last 20 span the whole price range
C21_Witness ==
    /\ pc = "analyze_done"
    /\ ~IsNone(ret)
    /\ CandleCount = 24
    /\ Val(ret).technical.support_level = Some(Rat(-10 - Spread))
    /\ Val(ret).technical.resistance_level = Some(Rat(MaxClose + Spread))

-----------------------------------------------------------------------------
(* Claims on the price change modifier, checked under SpecSignal *)

\* the score before the clamp without the price change modifier
ScoreWithoutPrice(r) == TableSum(r) - TablePrice(r)

\* the tiers as intervals of the 24h change, in percent
PriceTier(change) ==
    {m \in {-10, -5, 5, 3} :
        \/ m = -10 /\ RGt(change, Rat(20))
        \/ m = -5 /\ RGt(change, Rat(10)) /\ RGe(Rat(20), change)
        \/ m = 5 /\ RLt(change, Rat(-20))
        \/ m = 3 /\ RGe(change, Rat(-20)) /\ RLt(change, Rat(-10))}

(* C22: at most one of the four 24h price change modifiers applies:        *)
(* change > 20 gives -10; 10 < change <= 20 gives -5; change < -20 gives   *)
(* +5; -20 <= change < -10 gives +3; -10 <= change <= 10 gives none, so    *)
(* exactly 20 gives -5, exactly -20 gives +3, exactly 10 or -10 nothing.   *)
C22_PriceTiers ==
    (pc = "signal_done" /\ result.signal_strength > 0
                        /\ result.signal_strength < 100) =>
        LET applied == result.signal_strength - ScoreWithoutPrice(result)
            tier == PriceTier(result.price_change_24h)
        IN  /\ Cardinality(tier) <= 1
            /\ tier = {} => applied = 0
            /\ tier # {} => applied \in tier
            /\ result.price_change_24h = Rat(20) => applied = -5
            /\ result.price_change_24h = Rat(-20) => applied = 3
            /\ result.price_change_24h \in {Rat(10), Rat(-10)} => applied = 0

\* a change of exactly 20% on an otherwise neutral result
C22_Witness ==
    /\ pc = "signal_done"
    /\ result.price_change_24h = Rat(20)
    /\ ScoreWithoutPrice(result) = 50
    /\ result.signal_strength = 45

-----------------------------------------------------------------------------
(* Claims on the trend status by series length, checked under SpecAnalyze  *)

\* the reason tag the scorer records for a bias level, none for NORMAL
BiasTag(level) ==
    CASE level = "OVERSOLD" -> <<"oversold">>
      [] level = "LOW_RISK" -> <<"low_risk">>
      [] level = "CAUTION" -> <<"bias_high">>
      [] level = "HIGH_RISK" -> <<"no_chasing">>
      [] OTHER -> <<>>

(* C23: the trend status is constrained by the length N of the series:    *)
(* N < 25 always gives INSUFFICIENT_DATA, also for 7 <= N < 25 where a     *)
(* present bias_7 is still classified and scored; 25 <= N < 99 gives only  *)
(* SHORT_BULLISH or SHORT_BEARISH; N >= 99 gives only BULLISH_ALIGNED,     *)
(* BEARISH_ALIGNED or CONSOLIDATING.                                       *)
C23_TrendByLength ==
    (pc = "analyze_done" /\ ~IsNone(ret)) =>
        LET tech == Val(ret).technical
        IN  /\ CandleCount < 25 => tech.trend_status = "INSUFFICIENT_DATA"
            /\ (CandleCount >= 25 /\ CandleCount < 99) =>
                  tech.trend_status \in {"SHORT_BULLISH", "SHORT_BEARISH"}
            /\ CandleCount >= 99 =>
                  tech.trend_status \in
                      {"BULLISH_ALIGNED", "BEARISH_ALIGNED", "CONSOLIDATING"}
            /\ (CandleCount >= 7 /\ CandleCount < 25 /\ ~IsNone(tech.bias_7)) =>
                  /\ SubSeq(Val(ret).signal_reasons, 1, Len(BiasTag(tech.bias_level)))
                        = BiasTag(tech.bias_level)
                  /\ BiasTable(tech.bias_7, BIAS_THRESHOLD_LOW,
                               BIAS_THRESHOLD_CAUTION, tech.bias_level)

\* 24 candles: no trend, and a bias in the HIGH_RISK bucket that is scored
C23_Witness ==
    /\ pc = "analyze_done"
    /\ ~IsNone(ret)
    /\ CandleCount = 24
    /\ Val(ret).technical.trend_status = "INSUFFICIENT_DATA"
    /\ Val(ret).technical.bias_level = "HIGH_RISK"
    /\ Val(ret).signal_reasons[1] = "no_chasing"

-----------------------------------------------------------------------------
(* Claims on the order of the batch result, checked under SpecBatch *)

\* the ways to read list `sorted` as a rearrangement of list `input`
Rearrangements(input, sorted) ==
    {p \in [1..Len(sorted) -> 1..Len(input)] :
        /\ \A k, l \in 1..Len(sorted) : k # l => p[k] # p[l]
        /\ \A k \in 1..Len(sorted) : sorted[k] = input[p[k]]}

(* C24: the list analyze_batch returns holds the collected results ordered *)
(* by signal_strength, highest first, and results of equal strength keep   *)
(* the relative order their identifiers have in the input list.            *)
C24_StableDescending ==
    pc = "batch_done" =>
        /\ Len(ret) = Len(results)
        /\ \A k \in 1..(Len(ret) - 1) :
              ret[k].signal_strength >= ret[k + 1].signal_strength
        /\ \E p \in Rearrangements(results, ret) :
              \A k, l \in 1..Len(ret) :
                  (k < l /\ ret[k].signal_strength = ret[l].signal_strength)
                      => p[k] < p[l]

\* two different results of strength 55 after a weaker one, in input order
C24_Witness ==
    /\ pc = "batch_done"
    /\ Len(results) = 3
    /\ results[1].signal_strength = 45
    /\ results[2].signal_strength = 55
    /\ results[3].signal_strength = 55
    /\ results[2] # results[3]
    /\ ret = <<results[2], results[3], results[1]>>

-----------------------------------------------------------------------------
(* Claims on the notifications of one run(), checked under SpecBatch *)

\* positions of the log where something went out to the channels
Pushes(kind) == {k \in 1..Len(notified) : notified[k].kind = kind}

\* units whose worker returned a result
Analysed ==
    {i \in 1..Len(futures) :
        futures[i].state = "done" /\ ~IsNone(futures[i].value)}

-----------------------------------------------------------------------------
(* Claims on the final signal against the stored strength, under SpecSignal *)

\* the threshold mapping as the documentation tabulates it
ThresholdSignal(strength) ==
    CASE strength >= 80 -> "STRONG_BUY"
      [] strength >= 65 /\ strength < 80 -> "BUY"
      [] strength >= 45 /\ strength < 65 -> "HOLD"
      [] strength >= 30 /\ strength < 45 -> "SELL"
      [] OTHER -> "STRONG_SELL"

(* C26: with fewer than 3 risk warnings the stored signal is exactly the   *)
(* threshold mapping of the stored signal_strength; with 3 or more it is   *)
(* never STRONG_BUY, and the downgrade leaves signal_strength as scored.   *)
C26_SignalAgainstStrength ==
    pc = "signal_done" =>
        /\ Len(result.risk_warnings) < 3 =>
              result.signal = ThresholdSignal(result.signal_strength)
        /\ Len(result.risk_warnings) >= 3 => result.signal # "STRONG_BUY"
        /\ result.signal_strength = TableScore(result)

\* three warnings, a strength in the STRONG_BUY band and the signal BUY
C26_Witness ==
    /\ pc = "signal_done"
    /\ Len(result.risk_warnings) = 3
    /\ result.signal_strength >= 80
    /\ result.signal = "BUY"

\* three warnings, a strength in the BUY band and the signal HOLD
C26_WitnessHold ==
    /\ pc = "signal_done"
    /\ Len(result.risk_warnings) = 3
    /\ result.signal_strength >= 65
    /\ result.signal_strength < 80
    /\ result.signal = "HOLD"

-----------------------------------------------------------------------------
(* Claims on where risk warnings can occur, checked under SpecAnalyze *)

RiskTags ==
    {"liquidity_very_low", "liquidity_low", "fdv_ratio_high", "sell_pressure",
     "new_pool_24h", "new_pool_3d"}

(* C27: risk_warnings never holds more than 4 entries, at most one of each *)
(* rule group; a result of the exchange path has no risk warning and a     *)
(* buy_sell_ratio of 1.0, so that neither the penalty, nor the buy/sell    *)
(* modifiers, nor the downgrade affect it.                                 *)
C27_WarningsOnchainOnly ==
    (pc = "analyze_done" /\ ~IsNone(ret)) =>
        LET r == Val(ret)
            w == r.risk_warnings
        IN  /\ Len(w) <= 4
            /\ \A k \in 1..Len(w) : w[k] \in RiskTags
            /\ \A k, l \in 1..Len(w) :
                  RuleGroup(w[k]) = RuleGroup(w[l]) => k = l
            /\ feed.type = "exchange" =>
                  /\ w = <<>>
                  /\ r.onchain.buy_sell_ratio = Rat(1)
                  /\ \A k \in 1..Len(r.signal_reasons) :
                        r.signal_reasons[k] \notin
                            {"buy_pressure", "sell_pressure", "multiple_risks"}
                  /\ r.signal = ThresholdSignal(r.signal_strength)

\* an on-chain token that trips all four rule groups
C27_Witness ==
    /\ pc = "analyze_done"
    /\ ~IsNone(ret)
    /\ feed.type = "onchain"
    /\ Len(Val(ret).risk_warnings) = 4
    /\ RLt(Val(ret).onchain.buy_sell_ratio, <<1, 2>>)

\* an exchange token with candles, scored without warnings
C27_WitnessExchange ==
    /\ pc = "analyze_done"
    /\ ~IsNone(ret)
    /\ feed.type = "exchange"
    /\ ~IsNone(feed.kline)
    /\ Val(ret).risk_warnings = <<>>
    /\ Val(ret).onchain.buy_sell_ratio = Rat(1)

-----------------------------------------------------------------------------
(* Specification SpecMonotone: _generate_signal applied to a result, and   *)
(* again each time the result has gained one more risk warning; `ret`      *)
(* keeps the result as it was scored before the warning was added          *)

InitMonotone ==
    /\ pc = "signal_ready"
    /\ \E trend \in TrendStatus, bias \in BiasLevel, change \in PriceChanges,
          volume \in VolumeChanges, ratio \in BuySellRatios,
          holders \in HolderChanges, n \in 0..(MaxWarnings - 1) :
            result = SignalInput(trend, bias, change, volume, ratio, holders, n)
    /\ raw_signal = "WAIT"
    /\ IdleClassifier
    /\ IdleFeed
    /\ IdleBatch
    /\ IdleRun
    /\ IdleBot
    /\ IdleCall

AddRiskWarning ==
    /\ pc = "signal_done"
    /\ Len(result.risk_warnings) < MaxWarnings
    /\ LET more == [result EXCEPT !.risk_warnings = Append(@, "warning")]
       IN  /\ result' = _generate_signal(more)
           /\ raw_signal' = _generate_signal_raw(more)
    /\ ret' = Some(result)
    /\ UNCHANGED <<pc, args, BIAS_THRESHOLD_CAUTION, feed, batch_vars, run_vars,
                   bot_vars, api_call>>

NextMonotone == GenerateSignal \/ AddRiskWarning

SpecMonotone == InitMonotone /\ [][NextMonotone]_vars

\* STRONG_BUY > BUY > HOLD > SELL > STRONG_SELL
Bullishness(signal) ==
    CASE signal = "STRONG_BUY" -> 5
      [] signal = "BUY" -> 4
      [] signal = "HOLD" -> 3
      [] signal = "SELL" -> 2
      [] signal = "STRONG_SELL" -> 1
      [] OTHER -> 0

(* C28: with all other inputs fixed, one more risk warning never raises    *)
(* signal_strength and never makes the final signal more bullish in the    *)
(* order STRONG_BUY > BUY > HOLD > SELL > STRONG_SELL, the step from 2 to  *)
(* 3 warnings included.                                                    *)
C28_WarningsMonotone ==
    (pc = "signal_done" /\ ~IsNone(ret)) =>
        /\ Len(result.risk_warnings) = Len(Val(ret).risk_warnings) + 1
        /\ result.signal_strength <= Val(ret).signal_strength
        /\ Bullishness(result.signal) <= Bullishness(Val(ret).signal)
        /\ Bullishness(result.signal) >= 1

\* the third warning takes a STRONG_BUY down to HOLD: penalty and downgrade
C28_Witness ==
    /\ pc = "signal_done"
    /\ ~IsNone(ret)
    /\ Len(Val(ret).risk_warnings) = 2
    /\ Val(ret).signal = "STRONG_BUY"
    /\ Len(result.risk_warnings) = 3
    /\ result.signal = "HOLD"

-----------------------------------------------------------------------------
(* ContextManager and UserSession (src/bot/context_manager.py).  A Message *)
(* is its role and content, a MarketReport the number of its publication;  *)
(* the dict of sessions is the sequence of its values in insertion order.  *)

\* if len(self.messages) > 20: self.messages = self.messages[-20:]
MessageLimit == 20

\* if len(self.context_reports) > 3: self.context_reports = self.context_reports[-3:]
ReportLimit == 3

\* timedelta(hours=session_timeout_hours), in readings of the clock
session_timeout == 2

\* f"{platform}:{user_id}"
_get_session_key(user_id, platform) == <<platform, user_id>>

\* list[-n:] of a list longer than n
LastOf(list, n) == SubSeq(list, Len(list) - n + 1, Len(list))

UserSession(key, t) ==
    [key |-> key, messages |-> <<>>, last_active |-> t, context_reports |-> <<>>]

add_message(session, role, content, t) ==
    LET appended == Append(session.messages, [role |-> role, content |-> content])
    IN  [session EXCEPT
            !.messages = IF Len(appended) > MessageLimit
                         THEN LastOf(appended, MessageLimit) ELSE appended,
            !.last_active = t]

add_report(session, report) ==
    LET appended == Append(session.context_reports, report)
    IN  [session EXCEPT
            !.context_reports = IF Len(appended) > ReportLimit
                                THEN LastOf(appended, ReportLimit) ELSE appended]

clear_history(session) == [session EXCEPT !.messages = <<>>]

\* key in self.sessions
HasSession(ss, key) == \E i \in 1..Len(ss) : ss[i].key = key

SessionIndex(ss, key) == CHOOSE i \in 1..Len(ss) : ss[i].key = key

\* the sort read with reverse=True: most recently active first
RECURSIVE InsertByLastActiveNewestFirst(_, _)
InsertByLastActiveNewestFirst(sorted, s) ==
    IF sorted = <<>> THEN <<s>>
    ELSE IF Head(sorted).last_active >= s.last_active
    THEN <<Head(sorted)>> \o InsertByLastActiveNewestFirst(Tail(sorted), s)
    ELSE <<s>> \o sorted

\* position of s in a list sorted by last_active, earliest first; sorted()
\* is stable, so s goes after the entries that are not later than it
RECURSIVE InsertByLastActive(_, _)
InsertByLastActive(sorted, s) ==
    IF sorted = <<>> THEN <<s>>
    ELSE IF Head(sorted).last_active <= s.last_active
    THEN <<Head(sorted)>> \o InsertByLastActive(Tail(sorted), s)
    ELSE <<s>> \o sorted

\* sorted(self.sessions.items(), key=lambda x: x[1].last_active)
RECURSIVE SortByLastActive(_)
SortByLastActive(list) ==
    IF list = <<>> THEN <<>>
    ELSE InsertByLastActive(SortByLastActive(SubSeq(list, 1, Len(list) - 1)),
                            list[Len(list)])

\* expired sessions are deleted, then the earliest ones beyond max_sessions
_cleanup_expired_sessions(ss, t) ==
    LET Live(s) == ~(t - s.last_active > session_timeout)
        kept == SelectSeq(ss, Live)
        excess == Len(kept) - max_sessions
        evicted == IF excess > 0
                   THEN {SortByLastActive(kept)[i].key : i \in 1..excess}
                   ELSE {}
        Stays(s) == s.key \notin evicted
    IN  SelectSeq(kept, Stays)

\* the dict after the call, and whether the call created the session
get_or_create_session(key) ==
    IF HasSession(sessions, key)
    THEN [sessions |-> [sessions EXCEPT
                           ![SessionIndex(sessions, key)].last_active = now],
          created |-> FALSE]
    ELSE LET session == UserSession(key, now)
             reported == IF ~IsNone(_latest_global_report)
                         THEN add_report(session, Val(_latest_global_report))
                         ELSE session
         IN  [sessions |-> _cleanup_expired_sessions(Append(sessions, reported), now),
              created |-> TRUE]

\* the returned session object is changed in place: the dict sees the
\* change if it still holds the object
WithMessage(ss, key, role, content, t) ==
    IF HasSession(ss, key)
    THEN [ss EXCEPT ![SessionIndex(ss, key)] = add_message(@, role, content, t)]
    ELSE ss

WithClearedHistory(ss, key) ==
    IF HasSession(ss, key)
    THEN [ss EXCEPT ![SessionIndex(ss, key)] = clear_history(@)]
    ELSE ss

-----------------------------------------------------------------------------
(* Specification SpecContext: the operations of one ContextManager, in any *)
(* order.  Two envelopes of use: one user in a long conversation, and      *)
(* several users with short ones while reports are published and the clock *)
(* advances.                                                               *)

MaxMessages == 21

MaxReplies == 2

MaxReports == 4

MaxClock == 3

\* the values max_sessions is constructed with
SessionLimits == {1, 2}

SessionKeys ==
    {_get_session_key("u1", "telegram"), _get_session_key("u2", "telegram"),
     _get_session_key("u1", "wecom")}

Callers ==
    IF pc = "long_chat" THEN {_get_session_key("u1", "telegram")} ELSE SessionKeys

MessageCap == IF pc = "long_chat" THEN MaxMessages ELSE 1

ReportCap == IF pc = "long_chat" THEN 1 ELSE MaxReports

ClockCap == IF pc = "long_chat" THEN 0 ELSE MaxClock

InitContext ==
    /\ pc \in {"long_chat", "many_sessions"}
    /\ sessions = <<>>
    /\ max_sessions \in SessionLimits
    /\ _latest_global_report = None
    /\ now = 0
    /\ added = [k \in SessionKeys |-> <<>>]
    /\ created = None
    /\ IdleCall
    /\ IdleClassifier
    /\ IdleSignal
    /\ IdleFeed
    /\ IdleBatch
    /\ IdleRun

\* the history of key k once the dict is ss and k's own history is h
Histories(ss, k, h) ==
    [j \in SessionKeys |->
        IF ~HasSession(ss, j) THEN <<>> ELSE IF j = k THEN h ELSE added[j]]

Replies(h) == Cardinality({n \in 1..Len(h) : h[n].role = "assistant"})

GetOrCreateSession(k) ==
    /\ k \in Callers
    /\ LET got == get_or_create_session(k)
       IN  /\ sessions' = got.sessions
           /\ added' = Histories(got.sessions, k,
                                 IF got.created THEN <<>> ELSE added[k])
           /\ created' = IF got.created THEN Some(k) ELSE None
    /\ UNCHANGED <<pc, max_sessions, _latest_global_report, now, api_call,
                   args, ret, BIAS_THRESHOLD_CAUTION, result, raw_signal, feed,
                   batch_vars, run_vars>>

\* add_user_message / add_assistant_message: the session, then add_message
AddMessage(k, role) ==
    /\ k \in Callers
    /\ LET got == get_or_create_session(k)
           before == IF got.created THEN <<>> ELSE added[k]
           content == Len(before) + 1
           after == WithMessage(got.sessions, k, role, content, now)
       IN  /\ Len(before) < MessageCap
           /\ role = "assistant" => Replies(before) < MaxReplies
           /\ sessions' = after
           /\ added' = Histories(after, k,
                           Append(before, [role |-> role, content |-> content]))
           /\ created' = IF got.created THEN Some(k) ELSE None
    /\ UNCHANGED <<pc, max_sessions, _latest_global_report, now, api_call,
                   args, ret, BIAS_THRESHOLD_CAUTION, result, raw_signal, feed,
                   batch_vars, run_vars>>

AddUserMessage(k) == AddMessage(k, "user")

AddAssistantMessage(k) == AddMessage(k, "assistant")

ClearUserHistory(k) ==
    /\ k \in Callers
    /\ LET got == get_or_create_session(k)
           after == WithClearedHistory(got.sessions, k)
       IN  /\ sessions' = after
           /\ added' = Histories(after, k, <<>>)
           /\ created' = IF got.created THEN Some(k) ELSE None
    /\ UNCHANGED <<pc, max_sessions, _latest_global_report, now, api_call,
                   args, ret, BIAS_THRESHOLD_CAUTION, result, raw_signal, feed,
                   batch_vars, run_vars>>

\* the new report becomes the latest and is added to every session
UpdateGlobalReport ==
    /\ LET number == IF IsNone(_latest_global_report) THEN 1
                     ELSE Val(_latest_global_report) + 1
       IN  /\ number <= ReportCap
           /\ _latest_global_report' = Some(number)
           /\ sessions' = [i \in 1..Len(sessions) |->
                              add_report(sessions[i], number)]
    /\ created' = None
    /\ UNCHANGED <<pc, max_sessions, now, added, api_call,
                   args, ret, BIAS_THRESHOLD_CAUTION, result, raw_signal, feed,
                   batch_vars, run_vars>>

\* time passes between two operations
Tick ==
    /\ pc \in {"long_chat", "many_sessions"}
    /\ now < ClockCap
    /\ now' = now + 1
    /\ created' = None
    /\ UNCHANGED <<pc, sessions, max_sessions, _latest_global_report, added,
                   api_call, args, ret, BIAS_THRESHOLD_CAUTION, result,
                   raw_signal, feed, batch_vars, run_vars>>

NextContext ==
    \/ \E k \in SessionKeys : GetOrCreateSession(k)
    \/ \E k \in SessionKeys : AddUserMessage(k)
    \/ \E k \in SessionKeys : AddAssistantMessage(k)
    \/ \E k \in SessionKeys : ClearUserHistory(k)
    \/ UpdateGlobalReport
    \/ Tick

SpecContext == InitContext /\ [][NextContext]_vars

\* the last n entries of list h, n capped by its length
Recent(h, n) ==
    LET m == IF Len(h) < n THEN Len(h) ELSE n
    IN  [j \in 1..m |-> h[Len(h) - m + j]]

(* C29: after any sequence of ContextManager operations every session      *)
(* holds at most 20 messages, the most recent ones in order, and at most 3 *)
(* reports whose last one is the latest global report if any was           *)
(* published; after a session creation the number of sessions is at most   *)
(* max_sessions and the session just created is among them.                *)
C29_SessionsBounded ==
    /\ \A i \in 1..Len(sessions) :
          /\ Len(sessions[i].messages) <= 20
          /\ sessions[i].messages = Recent(added[sessions[i].key], 20)
          /\ Len(sessions[i].context_reports) <= 3
          /\ ~IsNone(_latest_global_report) =>
                /\ sessions[i].context_reports # <<>>
                /\ sessions[i].context_reports[Len(sessions[i].context_reports)]
                      = Val(_latest_global_report)
    /\ Len(sessions) <= max_sessions
    /\ ~IsNone(created) =>
          \E i \in 1..Len(sessions) : sessions[i].key = Val(created)

\* a session gets its 21st message: the first one is gone
C29_Witness ==
    /\ Len(sessions) = 1
    /\ Len(added[sessions[1].key]) = 21
    /\ Len(sessions[1].messages) = 20
    /\ sessions[1].messages[1].content = 2

\* a session is created at capacity and an earlier one is evicted, while
\* the fourth report is the latest
C29_WitnessEviction ==
    /\ ~IsNone(created)
    /\ max_sessions = 2
    /\ Len(sessions) = 2
    /\ sessions[2].key = Val(created)
    /\ \E k \in SessionKeys : ~HasSession(sessions, k) /\ k # Val(created)
    /\ _latest_global_report = Some(4)

-----------------------------------------------------------------------------
(* GeminiAnalyzer.analyze and _call_api_with_retry, attempt by attempt     *)
(* (src/analyzer.py).  api_call holds the locals of the running call and,  *)
(* as history, how many attempts and switches it has made.                 *)

\* what __init__ can leave behind: the primary model, the fallback model
\* taken by _init_model, the OpenAI client alone, or nothing at all
Analyzers ==
    {GeminiAnalyzer,
     [GeminiAnalyzer EXCEPT !.current_model_name = "fallback",
                            !.using_fallback = TRUE],
     [GeminiAnalyzer EXCEPT !.model = FALSE, !.current_model_name = "openai",
                            !.use_openai = TRUE, !.openai_client = TRUE],
     [GeminiAnalyzer EXCEPT !.model = FALSE, !.current_model_name = "none"]}

\* return self._model is not None or self._openai_client is not None
is_available(a) == a.model \/ a.openai_client

\* a successful _init_openai_fallback
_init_openai_fallback(a) ==
    [a EXCEPT !.openai_client = TRUE, !.current_model_name = "openai",
              !.use_openai = TRUE]

\* the switch is tried on every late rate-limit error
ShouldSwitchAgain(attempt, max_retries, tried_fallback) ==
    attempt >= max_retries \div 2

\* if attempt >= max_retries // 2 and not tried_fallback
ShouldSwitch(attempt, max_retries, tried_fallback) ==
    attempt >= max_retries \div 2 /\ ~tried_fallback

\* the fields of an AnalysisResult the callers branch on
AnalysisResult(success, sentiment_score) ==
    [success |-> success, sentiment_score |-> sentiment_score]

\* the result analyze builds when the analyzer is unavailable or the call raises
DefaultResult == AnalysisResult(FALSE, 50)

MaxRetries == 4

\* sentiment scores _parse_response can give
ParsedScores == {0, 35, 50, 65, 100}

Outcomes == {"text", "rate_limit", "error"}

InitRetry ==
    /\ pc = "analyze_ready"
    /\ analyzer \in Analyzers
    /\ api_call \in
          [phase : {"ready"}, max_retries : 0..MaxRetries,
           openai_configured : BOOLEAN, attempt : {0}, tried_fallback : {FALSE},
           last_error : {FALSE}, gemini_attempts : {0}, openai_attempts : {0},
           switches : {0}, switched_at : {0}, switched_on : {"none"}]
    /\ run_cfg = [max_workers |-> 1, dry_run |-> FALSE,
                  send_notification |-> FALSE, single_crypto_notify |-> FALSE]
    /\ futures = <<>>
    /\ collected = <<>>
    /\ notified = <<>>
    /\ IdleBot
    /\ IdleClassifier
    /\ IdleSignal
    /\ IdleFeed
    /\ IdleBatch

\* analyze up to the first attempt: the default result when no model is
\* available, the OpenAI loop when _use_openai, the Gemini loop otherwise
EnterCall ==
    /\ pc = "analyze_ready"
    /\ IF ~is_available(analyzer)
       THEN /\ ret' = Some(DefaultResult)
            /\ pc' = "analyze_done"
            /\ api_call' = [api_call EXCEPT !.phase = "skipped"]
       ELSE /\ ret' = ret
            /\ IF analyzer.use_openai
               THEN /\ pc' = "openai_loop"
                    /\ api_call' = [api_call EXCEPT !.phase = "openai"]
               ELSE /\ pc' = "gemini_loop"
                    /\ api_call' = [api_call EXCEPT
                          !.phase = "gemini",
                          !.tried_fallback = analyzer.using_fallback]
    /\ UNCHANGED <<args, BIAS_THRESHOLD_CAUTION, result, raw_signal, feed,
                   batch_vars, run_vars, bot_vars>>

\* one pass of `for attempt in range(max_retries)` of _call_api_with_retry
GeminiAttempt ==
    /\ pc = "gemini_loop"
    /\ api_call.attempt < api_call.max_retries
    /\ \E outcome \in Outcomes, switched \in BOOLEAN :
          LET tried == [api_call EXCEPT !.gemini_attempts = @ + 1]
              switch == /\ outcome = "rate_limit"
                        /\ ShouldSwitch(api_call.attempt, api_call.max_retries,
                                        api_call.tried_fallback)
                        /\ switched
          IN  IF outcome = "text"
              THEN /\ pc' = "call_returned"
                   /\ api_call' = tried
                   /\ analyzer' = analyzer
              ELSE /\ pc' = pc
                   /\ analyzer' = IF switch THEN _switch_to_fallback_model(analyzer)
                                  ELSE analyzer
                   /\ api_call' =
                         IF switch
                         THEN [tried EXCEPT !.attempt = @ + 1,
                                            !.last_error = TRUE,
                                            !.tried_fallback = TRUE,
                                            !.switches = @ + 1,
                                            !.switched_at = api_call.attempt,
                                            !.switched_on = outcome]
                         ELSE [tried EXCEPT !.attempt = @ + 1,
                                            !.last_error = TRUE]
    /\ UNCHANGED <<ret, args, BIAS_THRESHOLD_CAUTION, result, raw_signal, feed,
                   batch_vars, run_cfg, futures, collected, notified, bot_vars>>

\* the loop is over: the OpenAI client if there is one, else one built from
\* the configuration, else the last error is raised
GeminiExhausted ==
    /\ pc = "gemini_loop"
    /\ api_call.attempt >= api_call.max_retries
    /\ \E initialised \in BOOLEAN :
          IF analyzer.openai_client
          THEN /\ pc' = "openai_loop"
               /\ analyzer' = analyzer
               /\ api_call' = [api_call EXCEPT !.phase = "openai", !.attempt = 0]
          ELSE IF api_call.openai_configured /\ initialised
          THEN /\ pc' = "openai_loop"
               /\ analyzer' = _init_openai_fallback(analyzer)
               /\ api_call' = [api_call EXCEPT !.phase = "openai", !.attempt = 0]
          ELSE /\ pc' = "call_raised"
               /\ analyzer' = analyzer
               /\ api_call' = api_call
    /\ UNCHANGED <<ret, args, BIAS_THRESHOLD_CAUTION, result, raw_signal, feed,
                   batch_vars, run_cfg, futures, collected, notified, bot_vars>>

\* one pass of `for attempt in range(max_retries)` of _call_openai_api; the
\* last failure is raised, and so is whatever the caller makes of it
OpenAIAttempt ==
    /\ pc = "openai_loop"
    /\ api_call.attempt < api_call.max_retries
    /\ \E outcome \in Outcomes :
          LET tried == [api_call EXCEPT !.openai_attempts = @ + 1]
          IN  IF outcome = "text"
              THEN pc' = "call_returned" /\ api_call' = tried
              ELSE IF api_call.attempt = api_call.max_retries - 1
              THEN pc' = "call_raised" /\ api_call' = tried
              ELSE pc' = pc /\ api_call' = [tried EXCEPT !.attempt = @ + 1]
    /\ UNCHANGED <<ret, args, BIAS_THRESHOLD_CAUTION, result, raw_signal, feed,
                   batch_vars, run_vars, bot_vars>>

\* range(max_retries) was empty: the exception after the loop
OpenAIExhausted ==
    /\ pc = "openai_loop"
    /\ api_call.attempt >= api_call.max_retries
    /\ pc' = "call_raised"
    /\ UNCHANGED <<api_call, ret, args, BIAS_THRESHOLD_CAUTION, result,
                   raw_signal, feed, batch_vars, run_vars, bot_vars>>

\* analyze after the call: the parsed result, or the default one when the
\* call or the parsing raised
AnalyzeReturn ==
    /\ pc \in {"call_returned", "call_raised"}
    /\ \E parsed \in BOOLEAN, score \in ParsedScores :
          ret' = IF pc = "call_returned" /\ parsed
                 THEN Some(AnalysisResult(TRUE, score))
                 ELSE Some(DefaultResult)
    /\ api_call' = [api_call EXCEPT
                       !.phase = IF pc = "call_raised" THEN "raised" ELSE "returned"]
    /\ pc' = "analyze_done"
    /\ UNCHANGED <<args, BIAS_THRESHOLD_CAUTION, result, raw_signal, feed,
                   batch_vars, run_vars, bot_vars>>

NextRetry ==
    \/ EnterCall
    \/ GeminiAttempt
    \/ GeminiExhausted
    \/ OpenAIAttempt
    \/ OpenAIExhausted
    \/ AnalyzeReturn

\* every attempt ends: the request has a timeout and the sleeps are capped
SpecRetry == InitRetry /\ [][NextRetry]_vars /\ WF_vars(NextRetry)

\* the counts of one call stay within what the claim allows
C30_Bounded ==
    /\ api_call.gemini_attempts <= api_call.max_retries
    /\ api_call.openai_attempts <= api_call.max_retries
    /\ api_call.switches <= 1
    /\ api_call.switches = 1 =>
          /\ api_call.switched_on = "rate_limit"
          /\ 2 * api_call.switched_at + 1 >= api_call.max_retries
    /\ (api_call.openai_attempts > 0 /\ api_call.gemini_attempts > 0) =>
          api_call.gemini_attempts = api_call.max_retries
    /\ pc = "analyze_done" =>
          /\ ~IsNone(ret)
          /\ Val(ret).sentiment_score \in 0..100
          /\ api_call.phase \in {"raised", "skipped"} =>
                Val(ret).success = FALSE /\ Val(ret).sentiment_score = 50

(* C30: one _call_api_with_retry call ends after at most max_retries       *)
(* Gemini attempts, with at most one switch to the fallback model and that *)
(* only on a rate-limit error at an attempt index >= max_retries // 2,     *)
(* followed by at most max_retries OpenAI attempts; when every attempt     *)
(* fails analyze does not raise: it returns a result with success = False  *)
(* and sentiment_score 50.                                                 *)
C30_RetryTerminates == []C30_Bounded /\ <>(pc = "analyze_done")

\* every Gemini attempt failed, the model was switched once, every OpenAI
\* attempt failed too, and analyze returned the default result
C30_Witness ==
    /\ pc = "analyze_done"
    /\ api_call.phase = "raised"
    /\ api_call.max_retries = 4
    /\ api_call.gemini_attempts = 4
    /\ api_call.switches = 1
    /\ api_call.openai_attempts = 4
    /\ ret = Some(DefaultResult)

====
